---- MODULE Spec2Model ----
(***************************************************************************)
(* Pi RTK Surveyor: the GPIO pin registry (src/hardware/gpio_manager.py),   *)
(* the polling button manager (src/hardware/button_manager.py) and the     *)
(* GNSS controller (src/common/lc29h_controller.py).                       *)
(***************************************************************************)
EXTENDS Integers, Sequences, FiniteSets, TLC

VARIABLES
    allocated_pins,         \* GPIOManager.allocated_pins: pin -> owner (None: no entry)
    pin_modes,              \* GPIOManager.pin_modes: pin -> mode (None: no entry)
    pin_callbacks,          \* GPIOManager.pin_callbacks: pin -> callback (None: no entry)
    event_detect,           \* RPi.GPIO edge detection: pin -> attached callback (None: none)
    pin_setup,              \* RPi.GPIO channel setup: pin -> "INPUT" / "OUTPUT" (None: not set up)
    registered_components,  \* GPIOManager.registered_components
    lock,                   \* GPIOManager.lock (threading.Lock): None or the holding thread
    pc,                     \* per caller thread: where it is inside a registry call
    frame,                  \* per caller thread: the locals of the call in progress
    last,                   \* the registry call that returned last, with its result
    granted,                \* per component: pins it was granted and has not given back
    now,                    \* time.time(), in ticks of 10 ms
    pin_level,              \* raw level of each button's pin (0: low, pressed)
    button_states,          \* ButtonManager.button_states
    button_press_times,     \* ButtonManager.button_press_times (0: the sentinel)
    last_change_times,      \* ButtonManager._last_change_times (NoEntry: no entry)
    event_queue,            \* ButtonManager.event_queue
    running,                \* ButtonManager.running
    worker,                 \* ButtonManager.monitor_thread: where the polling thread is
    obs,                    \* per button: what a consumer has seen of its events so far
    raw,                    \* per button: the raw transitions of its pin so far
    queue_lock,             \* ButtonManager.queue_lock: None or the holding thread
    event_callbacks,        \* ButtonManager.event_callbacks: (button, event) -> callbacks
    trig,                   \* the call of _trigger_event in progress in the polling thread
    consumer,               \* per consumer thread: its call of get_button_events
    enq,                    \* every event appended to the queue so far, in order
    ret,                    \* every event returned by get_button_events so far, in order
    dispatched,             \* the last finished _trigger_event: the callbacks it invoked
    PYNMEA2_AVAILABLE,      \* lc29h_controller.PYNMEA2_AVAILABLE
    gnss_mode,              \* LC29HController: "serial", "mock" (simulate, mock data) or "basic"
    current_position,       \* LC29HController.current_position (the one GNSSPosition object)
    position_lock,          \* LC29HController.position_lock: None or the holding thread
    position_callbacks,     \* LC29HController.position_callbacks
    gnss_running,           \* LC29HController.running
    read_thread,            \* LC29HController.read_thread: where the read thread is
    messages_received,      \* LC29HController.messages_received
    parsing_errors,         \* LC29HController.parsing_errors
    processed,              \* the last call of _process_nmea_sentence: argument and effect
    held,                   \* per reading thread: what get_position returned to it
    stats,                  \* the call of get_statistics in progress, and the last dict
    probe,                  \* main._initialize_gps_controller: the probing in progress
    connected,              \* LC29HController.connected
    serial_connection,      \* LC29HController.serial_connection: its port, whether it is open
    gnss_port,              \* LC29HController.port
    stale_threads,          \* read threads still in their loop that read_thread no longer names
    call,                   \* per caller thread: its call of connect / start / stop / disconnect
    opened,                 \* the serial links the connect() in progress or finished last opened
    connect_ret,            \* what connect() returned, until start / stop / disconnect is called
    returned,               \* the call of the controller that returned last, with its result
    swbm,                   \* the ButtonManager of software/input: its fields, pin, threads, timers
    coord,                  \* a call of _parse_coordinate: its arguments and what it returned
    disp,                   \* a list of callbacks that change the list, and its dispatch
    nmea                    \* the bytes of the serial link, nmea_buffer and the lines passed on

gpio_vars == <<allocated_pins, pin_modes, pin_callbacks, event_detect, pin_setup,
               registered_components, lock, pc, frame, last, granted>>

button_vars == <<now, pin_level, button_states, button_press_times, last_change_times,
                 event_queue, running, worker, obs, raw>>

queue_vars == <<queue_lock, event_callbacks, trig, consumer, enq, ret, dispatched>>

gnss_vars == <<PYNMEA2_AVAILABLE, gnss_mode, current_position, position_lock,
               position_callbacks, gnss_running, read_thread, messages_received,
               parsing_errors, processed, held, stats>>

probe_vars == <<probe>>

conn_vars == <<connected, serial_connection, gnss_port, stale_threads, call, opened,
               connect_ret, returned>>

soft_vars == <<swbm>>

\* The variables of the parts followed on their own
extra_vars == <<coord, disp, nmea>>

\* What the registry and the polling pass leave alone
other_vars == <<queue_vars, gnss_vars, probe_vars, conn_vars, soft_vars, extra_vars>>

\* The state of the polling pass, the queue aside
poll_state == <<now, pin_level, button_states, button_press_times, last_change_times,
                running, worker, obs, raw>>

vars == <<allocated_pins, pin_modes, pin_callbacks, event_detect, pin_setup,
          registered_components, lock, pc, frame, last, granted,
          now, pin_level, button_states, button_press_times, last_change_times,
          event_queue, running, worker, obs, raw,
          queue_lock, event_callbacks, trig, consumer, enq, ret, dispatched,
          PYNMEA2_AVAILABLE, gnss_mode, current_position, position_lock,
          position_callbacks, gnss_running, read_thread, messages_received,
          parsing_errors, processed, held, stats, probe,
          connected, serial_connection, gnss_port, stale_threads, call, opened,
          connect_ret, returned, swbm, coord, disp, nmea>>

gpio_tables == <<allocated_pins, pin_modes, pin_callbacks, event_detect, pin_setup,
                 registered_components>>

None == "None"

\* The components (ButtonManager.component_name, OLEDManager.component_name);
\* each calls the registry from a thread of its own, under its own name
Components == {"button_manager", "oled_manager"}
Threads == Components
Callbacks == {"cb1", "cb2"}

\* GPIOManager.BUTTON_PINS / OLED_PINS in dict order
BUTTON_PINS == <<21, 20, 16, 6, 19, 5, 26, 13>>
OLED_PINS == <<8, 10, 11, 24, 25>>

\* Pins, modes and edges the single-pin calls are tried with
SinglePins == {20, 8}
InterruptPins == {20}
SingleModes == {"INPUT"}
Edges == {"BOTH", "LEVEL"}

Range(s) == {s[i] : i \in 1..Len(s)}

\* The batch loops are run over the first MaxBatch pins of each dict
MaxBatch == 3

Min(a, b) == IF a < b THEN a ELSE b

BatchPins(kind) ==
    IF kind = "button" THEN SubSeq(BUTTON_PINS, 1, Min(MaxBatch, Len(BUTTON_PINS)))
    ELSE SubSeq(OLED_PINS, 1, Min(MaxBatch, Len(OLED_PINS)))
Pins == Range(BatchPins("button")) \cup Range(BatchPins("oled"))

BatchOp(kind) == IF kind = "button" THEN "request_button_pins" ELSE "request_oled_pins"

\* request_oled_pins: SPI for pins 8, 10, 11, OUTPUT for the rest;
\* request_button_pins: INPUT with pull-up
BatchMode(kind, pin) ==
    IF kind = "button" THEN "INPUT"
    ELSE IF pin \in {8, 10, 11} THEN "SPI" ELSE "OUTPUT"

IdleFrame ==
    [kind |-> None, comp |-> None, idx |-> 0, k |-> 0, ok |-> TRUE,
     fresh |-> {}, undone |-> {}, allOwned |-> TRUE, todo |-> {}, ret |-> "idle",
     comps |-> {}]

NoCall == [op |-> None, comp |-> None, pin |-> 0, ok |-> TRUE, hw |-> TRUE]

\* hw: FALSE when the call met a hardware failure (GPIO.setup or
\* GPIO.add_event_detect raised)
Returned(op, c, pin, ok) == [op |-> op, comp |-> c, pin |-> pin, ok |-> ok, hw |-> TRUE]

ReturnedHw(op, c, pin, ok, hw) == [op |-> op, comp |-> c, pin |-> pin, ok |-> ok, hw |-> hw]

----------------------------------------------------------------------------
\* threading.Lock is not reentrant: `with self.lock` waits until nobody holds it,
\* the calling thread included
LockFree(t) == lock = None

\* _configure_pin: GPIO.setup may raise for INPUT and OUTPUT (hw = FALSE);
\* SPI, I2C and UART pins are only tracked
configure_pin(pin, mode, hw) ==
    IF mode \in {"INPUT", "OUTPUT"} THEN hw ELSE TRUE

\* Mutant of request_pin_ok: any pin found in the table is reported as granted,
\* whoever owns it
request_pin_ok_any_owner(pin, c, mode, hw) ==
    /\ c \in registered_components
    /\ IF allocated_pins[pin] # None THEN TRUE ELSE configure_pin(pin, mode, hw)

\* Mutant of request_pin_ok: a pin found in the table is refused, the caller's
\* own included
request_pin_ok_no_reentry(pin, c, mode, hw) ==
    /\ c \in registered_components
    /\ allocated_pins[pin] = None
    /\ configure_pin(pin, mode, hw)

\* request_pin's return value in the current state
request_pin_ok(pin, c, mode, hw) ==
    /\ c \in registered_components
    /\ IF allocated_pins[pin] # None
       THEN allocated_pins[pin] = c
       ELSE configure_pin(pin, mode, hw)

\* Mutant of request_pin_allocates: the pin is recorded before it is configured
request_pin_allocates_unconfigured(pin, c, mode, hw) ==
    /\ c \in registered_components
    /\ allocated_pins[pin] = None

\* request_pin allocates when the pin is free and was configured
request_pin_allocates(pin, c, mode, hw) ==
    /\ c \in registered_components
    /\ allocated_pins[pin] = None
    /\ configure_pin(pin, mode, hw)

\* request_pin reached _configure_pin and it failed
request_pin_hw_failed(pin, c, mode, hw) ==
    /\ c \in registered_components
    /\ allocated_pins[pin] = None
    /\ ~configure_pin(pin, mode, hw)

\* request_pin's effect on the tables (the body under the lock)
request_pin(pin, c, mode, hw) ==
    /\ allocated_pins' = IF request_pin_allocates(pin, c, mode, hw)
                         THEN [allocated_pins EXCEPT ![pin] = c]
                         ELSE allocated_pins
    /\ pin_modes' = IF request_pin_allocates(pin, c, mode, hw)
                    THEN [pin_modes EXCEPT ![pin] = mode]
                    ELSE pin_modes
    /\ granted' = IF request_pin_ok(pin, c, mode, hw)
                  THEN [granted EXCEPT ![c] = @ \cup {pin}]
                  ELSE granted
    /\ pin_setup' = IF request_pin_allocates(pin, c, mode, hw) /\ mode \in {"INPUT", "OUTPUT"}
                    THEN [pin_setup EXCEPT ![pin] = mode]
                    ELSE pin_setup
    /\ UNCHANGED <<pin_callbacks, event_detect, registered_components>>

\* Mutant of release_pin_ok: the owner is not compared with the caller
release_pin_ok_any_caller(pin, c) ==
    allocated_pins[pin] # None

\* release_pin's return value in the current state
release_pin_ok(pin, c) ==
    /\ allocated_pins[pin] # None
    /\ allocated_pins[pin] = c

\* release_pin's effect on the tables (the body under the lock):
\* _cleanup_pin removes the edge detection (and leaves the channel as it was
\* set up), then the three entries are deleted
release_pin(pin, c) ==
    /\ UNCHANGED pin_setup
    /\ event_detect' = IF release_pin_ok(pin, c)
                       THEN [event_detect EXCEPT ![pin] = None]
                       ELSE event_detect
    /\ allocated_pins' = IF release_pin_ok(pin, c)
                         THEN [allocated_pins EXCEPT ![pin] = None]
                         ELSE allocated_pins
    /\ pin_modes' = IF release_pin_ok(pin, c)
                    THEN [pin_modes EXCEPT ![pin] = None]
                    ELSE pin_modes
    /\ pin_callbacks' = IF release_pin_ok(pin, c)
                        THEN [pin_callbacks EXCEPT ![pin] = None]
                        ELSE pin_callbacks
    /\ granted' = IF release_pin_ok(pin, c)
                  THEN [granted EXCEPT ![c] = @ \ {pin}]
                  ELSE granted

----------------------------------------------------------------------------
\* The polling ButtonManager. Times are in ticks of 10 ms, the polling interval.

\* The buttons polled, in the order of ButtonManager.BUTTON_PINS, and their pins
ButtonOrder == <<"KEY1">>
Buttons == Range(ButtonOrder)
ButtonPin(b) == 21

debounce_time == 5
long_press_time == 100
poll_interval == 1

\* time.time() when the program starts (never 0, the sentinel of button_press_times)
StartTime == 1

\* _last_change_times has no entry for the button (or does not exist yet)
NoEntry == -1

\* Mutant of Debounced: the debounce window is not applied
Debounced_never(b) == FALSE

\* _handle_button_state_change, the debounce test: a change is ignored when the
\* button has an entry in _last_change_times less than debounce_time old
Debounced(b) ==
    /\ last_change_times[b] # NoEntry
    /\ now - last_change_times[b] < debounce_time

\* The state of one button during a polling pass, and the event the pass emits
Keep(b) ==
    [st |-> button_states[b], pt |-> button_press_times[b],
     lc |-> last_change_times[b], ev |-> None]

\* _handle_button_state_change(button, pressed)
handle_button_state_change(b, pressed) ==
    IF Debounced(b) THEN Keep(b)
    ELSE IF pressed
         THEN [st |-> TRUE, pt |-> now, lc |-> now, ev |-> "press"]
         ELSE IF button_states[b]
              THEN [st |-> FALSE, pt |-> 0, lc |-> now, ev |-> "release"]
              ELSE [st |-> button_states[b], pt |-> button_press_times[b],
                    lc |-> now, ev |-> None]

\* Mutant of PinChanged: only a press is taken for a change
PinChanged_press_only(b, current_pressed) == current_pressed /\ ~button_states[b]

\* _polling_loop: "if current_pressed != previous_pressed"
PinChanged(b, current_pressed) == current_pressed # button_states[b]

\* _polling_loop, the body for one button: read the pin through the registry
\* (read_ok = FALSE: read_pin returned None), compare with the recorded state
PollButton(b, read_ok) ==
    LET current_pressed == (pin_level[b] = 0) IN
    IF read_ok /\ PinChanged(b, current_pressed)
    THEN handle_button_state_change(b, current_pressed)
    ELSE Keep(b)

\* Mutant of LongPressDue: the debounce window is taken for the long-press time
LongPressDue_debounce(r) ==
    r.st /\ r.pt > 0 /\ now - r.pt >= debounce_time

\* Mutant of LongPressDue: the press time is not tested for the sentinel
LongPressDue_repeated(r) ==
    r.st /\ now - r.pt >= long_press_time

\* _check_long_presses, the condition for one button (r: its state after the
\* pin loop of this pass)
LongPressDue(r) ==
    r.st /\ r.pt > 0 /\ now - r.pt >= long_press_time

\* The events one polling pass appends to the queue: those of the pin loop in
\* dict order, then those of _check_long_presses in dict order
RECURSIVE EdgeEvents(_, _)
EdgeEvents(res, i) ==
    IF i > Len(ButtonOrder) THEN <<>>
    ELSE LET b == ButtonOrder[i] IN
         (IF res[b].ev # None
          THEN <<[button |-> b, event |-> res[b].ev, timestamp |-> now]>>
          ELSE <<>>) \o EdgeEvents(res, i + 1)

RECURSIVE LongEvents(_, _)
LongEvents(res, i) ==
    IF i > Len(ButtonOrder) THEN <<>>
    ELSE LET b == ButtonOrder[i] IN
         (IF LongPressDue(res[b])
          THEN <<[button |-> b, event |-> "long_press", timestamp |-> now]>>
          ELSE <<>>) \o LongEvents(res, i + 1)

\* What a consumer of the events of one button keeps of them: the last of its
\* PRESS/RELEASE events and its time, the time of the last PRESS, the number of
\* LONG_PRESS events since (counted to 2), and what went wrong
NoEvents ==
    [edge |-> None, edge_at |-> 0, press_at |-> 0, lp |-> 0,
     bad |-> FALSE, early |-> FALSE, missed |-> FALSE, extra |-> FALSE]

Observe(o, e) ==
    IF e.event = "press"
    THEN [o EXCEPT !.edge = "press", !.edge_at = e.timestamp,
                   !.press_at = e.timestamp, !.lp = 0,
                   !.bad = @ \/ o.edge = "press",
                   !.early = o.edge # None /\ e.timestamp - o.edge_at < debounce_time,
                   !.missed = FALSE, !.extra = FALSE]
    ELSE IF e.event = "release"
    THEN [o EXCEPT !.edge = "release", !.edge_at = e.timestamp,
                   !.bad = @ \/ o.edge # "press",
                   !.early = o.edge # None /\ e.timestamp - o.edge_at < debounce_time,
                   !.missed = (e.timestamp - o.press_at >= long_press_time /\ o.lp = 0),
                   !.extra = (e.timestamp - o.press_at < long_press_time /\ o.lp > 0)]
    ELSE [o EXCEPT !.lp = IF o.lp < 2 THEN o.lp + 1 ELSE 2,
                   !.bad = @ \/ o.edge # "press"
                             \/ e.timestamp - o.press_at < long_press_time]

RECURSIVE ObserveAll(_, _, _)
ObserveAll(o, evs, b) ==
    IF evs = <<>> THEN o
    ELSE ObserveAll(IF Head(evs).button = b THEN Observe(o, Head(evs)) ELSE o,
                    Tail(evs), b)

\* The raw transitions of one pin: the time of the last one, whether the last two
\* were less than debounce_time apart, and the PRESS/RELEASE events emitted since
\* the last one and since the one before (counted to 2)
NoRaw == [last |-> 0, close |-> FALSE, nLast |-> 0, nPair |-> 0]

Count2(n) == IF n < 2 THEN n + 1 ELSE 2

RawAfterEvent(r, res) ==
    IF res.ev = None \/ r.last = 0 THEN r
    ELSE [r EXCEPT !.nLast = Count2(@), !.nPair = Count2(@)]

\* The consumer drains the queue before it holds more than MaxQueue events
MaxQueue == 1

\* The clock is followed up to MaxTime (long presses) or MaxTimeShort (debounce)
MaxTime == 103
MaxTimeShort == 12

\* The polling thread is rescheduled within MaxDelay ticks after its sleep
MaxDelay == 1

\* ... or, with the time of the pass counted, within MaxLate ticks
MaxLate == 2

\* One pass of _polling_loop's body: every button's pin, then _check_long_presses
WorkerPollWith(read_ok) ==
    /\ worker = "poll"
    /\ running
    /\ Len(event_queue) + Len(ButtonOrder) <= MaxQueue
    /\ LET res == [b \in Buttons |-> PollButton(b, read_ok[b])]
           evs == EdgeEvents(res, 1) \o LongEvents(res, 1)
       IN /\ button_states' = [b \in Buttons |-> res[b].st]
          /\ button_press_times' =
                [b \in Buttons |-> IF LongPressDue(res[b]) THEN 0 ELSE res[b].pt]
          /\ last_change_times' = [b \in Buttons |-> res[b].lc]
          /\ event_queue' = event_queue \o evs
          /\ obs' = [b \in Buttons |-> ObserveAll(obs[b], evs, b)]
          /\ raw' = [b \in Buttons |-> RawAfterEvent(raw[b], res[b])]
    /\ worker' = "sleep"
    /\ UNCHANGED <<now, pin_level, running>>
    /\ UNCHANGED gpio_vars
    /\ UNCHANGED other_vars

\* A pass in which read_pin returns the level of a pin or None
WorkerPoll == \E read_ok \in [Buttons -> BOOLEAN] : WorkerPollWith(read_ok)

\* A pass in which read_pin returns the level of every pin
WorkerPollReads == WorkerPollWith([b \in Buttons |-> TRUE])

\* time.sleep(0.01) at the end of the pass, up to the horizon of the run
WorkerSleepWithin(horizon, delay) ==
    /\ worker = "sleep"
    /\ \E d \in poll_interval..delay :
        /\ now + d <= horizon
        /\ now' = now + d
    /\ worker' = "poll"
    /\ UNCHANGED <<pin_level, button_states, button_press_times, last_change_times,
                   event_queue, running, obs, raw>>
    /\ UNCHANGED gpio_vars
    /\ UNCHANGED other_vars

\* The next pass begins poll_interval..MaxDelay ticks after this one
WorkerSleep(horizon) == WorkerSleepWithin(horizon, MaxDelay)

\* The pass itself and the scheduler add up to a tick: the next pass begins
\* poll_interval..MaxLate ticks after this one
WorkerSleepLate(horizon) == WorkerSleepWithin(horizon, MaxLate)

\* _polling_loop's "while self.running" when the flag is down: the thread ends
WorkerExit ==
    /\ worker = "poll"
    /\ ~running
    /\ worker' = "exited"
    /\ UNCHANGED <<now, pin_level, button_states, button_press_times, last_change_times,
                   event_queue, running, obs, raw>>
    /\ UNCHANGED gpio_vars
    /\ UNCHANGED other_vars

\* The button is pushed or let go: the raw level of its pin changes
PinChange ==
    /\ \E b \in Buttons : pin_level' = [pin_level EXCEPT ![b] = 1 - @]
    /\ UNCHANGED <<now, button_states, button_press_times, last_change_times,
                   event_queue, running, worker, obs, raw>>
    /\ UNCHANGED gpio_vars
    /\ UNCHANGED other_vars

\* The same, with the transition recorded
PinChangeRecorded ==
    /\ \E b \in Buttons :
        /\ pin_level' = [pin_level EXCEPT ![b] = 1 - @]
        /\ raw' = [raw EXCEPT ![b] =
                      [last |-> now,
                       close |-> (raw[b].last # 0 /\ now - raw[b].last < debounce_time),
                       nLast |-> 0,
                       nPair |-> raw[b].nLast]]
    /\ UNCHANGED <<now, button_states, button_press_times, last_change_times,
                   event_queue, running, worker, obs>>
    /\ UNCHANGED gpio_vars
    /\ UNCHANGED other_vars

\* get_button_events(): copy the queue and clear it, under queue_lock
GetButtonEvents ==
    /\ event_queue # <<>>
    /\ event_queue' = <<>>
    /\ UNCHANGED <<now, pin_level, button_states, button_press_times, last_change_times,
                   running, worker, obs, raw>>
    /\ UNCHANGED gpio_vars
    /\ UNCHANGED other_vars

----------------------------------------------------------------------------
\* The event queue and the callbacks of the button manager, step by step

\* The threads that call get_button_events
Consumers == {"consumer1", "consumer2"}

\* The events _trigger_event is called with, and the one callbacks are registered for
TriggerEvents == {"press", "release"}
CallbackEvents == {"press"}

\* A registered callback either returns or raises on every call
CallbackKinds == {"normal", "raising"}

\* At most MaxEvents events are triggered, at most MaxCallbacks callbacks registered
MaxEvents == 3
MaxCallbacks == 2

NoEvent == [button |-> None, event |-> None, timestamp |-> 0]

NoTrigger == [pc |-> "idle", ev |-> NoEvent, k |-> 0, called |-> {}]

NoDispatch == [ev |-> NoEvent, called |-> {}, cbs |-> <<>>, done |-> TRUE]

IdleConsumer == [pc |-> "idle", events |-> <<>>]

\* ButtonManager.__init__: an unlocked queue_lock, no callbacks
InitQueue ==
    /\ queue_lock = None
    /\ event_callbacks = [e \in CallbackEvents |-> <<>>]
    /\ trig = NoTrigger
    /\ consumer = [c \in Consumers |-> IdleConsumer]
    /\ enq = <<>>
    /\ ret = <<>>
    /\ dispatched = NoDispatch

----------------------------------------------------------------------------
\* The GNSS controller: positions and sentences

\* FixType
NO_FIX == 0
RTK_FIXED == 4
RTK_FLOAT == 5
FixTypes == 0..8

\* GNSSPosition.__init__. Coordinates are in units of their own, hdop and
\* elevation in tenths; timestamp is None or "time", a reading of the clock
NewPosition ==
    [latitude |-> 0, longitude |-> 0, elevation |-> 0, fix_type |-> NO_FIX,
     satellites_used |-> 0, hdop |-> 999, accuracy_horizontal |-> 999,
     accuracy_vertical |-> 999, timestamp |-> None, valid |-> FALSE]

\* A comma-separated field of a sentence: empty, a number, or text that is no number
Empty == [k |-> "empty", v |-> 0]
Bad == [k |-> "bad", v |-> 0]
Num(n) == [k |-> "num", v |-> n]

\* A candidate sentence: its type (the end of parts[0]), whether it has the
\* parts the manual parser asks for (15 for GGA, 12 for RMC), whether its
\* checksum field matches its characters, and its fields. A coordinate field
\* is Num(d) when it converts to d, Bad when _parse_coordinate returns None
Sentence(type, parts_ok, checksum_ok, lat, lon, q, sats, hdop_f, alt, status) ==
    [type |-> type, parts_ok |-> parts_ok, checksum_ok |-> checksum_ok,
     lat |-> lat, lon |-> lon, q |-> q, sats |-> sats, hdop |-> hdop_f, alt |-> alt,
     status |-> status]

\* $GNGGA,123456.00,4012.34567,N,07401.23456,W,4,12,0.8,45.2,M,-33.2,M,1.2,0000*5A
\* (mock_gps.py); the characters between $ and * add up (xor) to 58, not 5A
MockGGA ==
    Sentence("GGA", TRUE, FALSE, Num(40), Num(-74), Num(4), Num(12), Num(8), Num(452), "")

\* The result of a parser: the position, whether the callbacks are triggered
\* (under the lock), and whether an exception left the parser
Parsed(pos, cb, raised) == [pos |-> pos, callbacks |-> cb, raised |-> raised]

\* int(text) / float(text) raises ValueError; FixType(n) raises it outside 0..8
IsNum(f) == f.k = "num"
Present(f) == f.k # "empty"

\* _parse_basic_nmea, GGA branch: the assignments in order, up to the first
\* conversion that raises; `except (ValueError, IndexError): pass` ends the branch
BasicGGA(pos, s) ==
    LET p1 == IF Present(s.lat) /\ Present(s.lon) /\ IsNum(s.lat) /\ IsNum(s.lon)
              THEN [pos EXCEPT !.latitude = s.lat.v, !.longitude = s.lon.v]
              ELSE pos
        qbad == Present(s.q) /\ ~(IsNum(s.q) /\ s.q.v \in FixTypes)
        p2 == IF Present(s.q) /\ ~qbad THEN [p1 EXCEPT !.fix_type = s.q.v] ELSE p1
        sbad == Present(s.sats) /\ ~IsNum(s.sats)
        p3 == IF Present(s.sats) /\ ~sbad THEN [p2 EXCEPT !.satellites_used = s.sats.v]
              ELSE p2
        hbad == Present(s.hdop) /\ ~IsNum(s.hdop)
        p4 == IF Present(s.hdop) /\ ~hbad THEN [p3 EXCEPT !.hdop = s.hdop.v] ELSE p3
        abad == Present(s.alt) /\ ~IsNum(s.alt)
        p5 == IF Present(s.alt) /\ ~abad THEN [p4 EXCEPT !.elevation = s.alt.v] ELSE p4
        p6 == [p5 EXCEPT !.valid = (Present(s.q) /\ s.q.v > 0), !.timestamp = "time"]
    IN IF qbad THEN Parsed(p1, FALSE, FALSE)
       ELSE IF sbad THEN Parsed(p2, FALSE, FALSE)
       ELSE IF hbad THEN Parsed(p3, FALSE, FALSE)
       ELSE IF abad THEN Parsed(p4, FALSE, FALSE)
       ELSE Parsed(p6, TRUE, FALSE)

\* _parse_basic_nmea, RMC branch
BasicRMC(pos, s) ==
    LET p1 == IF Present(s.lat) /\ Present(s.lon) /\ IsNum(s.lat) /\ IsNum(s.lon)
              THEN [pos EXCEPT !.latitude = s.lat.v, !.longitude = s.lon.v]
              ELSE pos
    IN Parsed([p1 EXCEPT !.valid = (s.status = "A"), !.timestamp = "time"], FALSE, FALSE)

\* _parse_basic_nmea
parse_basic_nmea(pos, s) ==
    IF s.type = "GGA" /\ s.parts_ok THEN BasicGGA(pos, s)
    ELSE IF s.type = "RMC" /\ s.parts_ok THEN BasicRMC(pos, s)
    ELSE Parsed(pos, FALSE, FALSE)

\* A pynmea2 attribute used as a condition: a float attribute (latitude,
\* longitude, altitude) is false when absent and when it is 0.0, text that does
\* not convert is handed over as it is
Truthy(f) == f.k = "bad" \/ (f.k = "num" /\ f.v # 0)

\* _parse_with_pynmea2, GGA branch. msg.latitude / msg.longitude are 0.0 for a
\* field that is no coordinate; every exception is caught at the end of the method
PynmeaGGA(pos, s) ==
    LET p1 == IF IsNum(s.lat) /\ s.lat.v # 0 /\ IsNum(s.lon) /\ s.lon.v # 0
              THEN [pos EXCEPT !.latitude = s.lat.v, !.longitude = s.lon.v]
              ELSE pos
        abad == Truthy(s.alt) /\ ~IsNum(s.alt)
        p2 == IF Truthy(s.alt) /\ ~abad THEN [p1 EXCEPT !.elevation = s.alt.v] ELSE p1
        qbad == Present(s.q) /\ ~(IsNum(s.q) /\ s.q.v \in FixTypes)
        p3 == IF Present(s.q) /\ ~qbad THEN [p2 EXCEPT !.fix_type = s.q.v] ELSE p2
        sbad == Present(s.sats) /\ ~IsNum(s.sats)
        p4 == IF Present(s.sats) /\ ~sbad THEN [p3 EXCEPT !.satellites_used = s.sats.v]
              ELSE p3
        hbad == Present(s.hdop) /\ ~IsNum(s.hdop)
        p5 == IF Present(s.hdop) /\ ~hbad THEN [p4 EXCEPT !.hdop = s.hdop.v] ELSE p4
        p6 == [p5 EXCEPT !.valid = (Present(s.q) /\ s.q.v > 0), !.timestamp = "time"]
    IN IF abad THEN Parsed(p1, FALSE, FALSE)
       ELSE IF qbad THEN Parsed(p2, FALSE, FALSE)
       ELSE IF sbad THEN Parsed(p3, FALSE, FALSE)
       ELSE IF hbad THEN Parsed(p4, FALSE, FALSE)
       ELSE Parsed(p6, TRUE, FALSE)

\* _parse_with_pynmea2, RMC branch
PynmeaRMC(pos, s) ==
    LET p1 == IF IsNum(s.lat) /\ s.lat.v # 0 /\ IsNum(s.lon) /\ s.lon.v # 0
              THEN [pos EXCEPT !.latitude = s.lat.v, !.longitude = s.lon.v]
              ELSE pos
    IN Parsed([p1 EXCEPT !.valid = (s.status = "A"), !.timestamp = "time"], FALSE, FALSE)

\* _parse_with_pynmea2: pynmea2.parse raises ChecksumError for a checksum field
\* that does not match, and the method catches whatever is raised
parse_with_pynmea2(pos, s) ==
    IF ~s.checksum_ok THEN Parsed(pos, FALSE, FALSE)
    ELSE IF s.type = "GGA" THEN PynmeaGGA(pos, s)
    ELSE IF s.type = "RMC" THEN PynmeaRMC(pos, s)
    ELSE Parsed(pos, FALSE, FALSE)

\* A sentence of one of the two families whose structured parsing fails: too few
\* parts, a checksum that does not match, a field that is no number, a
\* fix-quality code outside 0..8
Malformed(s) ==
    /\ s.type \in {"GGA", "RMC"}
    /\ \/ ~s.parts_ok
       \/ ~s.checksum_ok
       \/ s.type = "GGA" /\ \E f \in {s.q, s.sats, s.hdop, s.alt} : f.k = "bad"
       \/ s.type = "GGA" /\ IsNum(s.q) /\ s.q.v \notin FixTypes
       \/ \E f \in {s.lat, s.lon} : f.k = "bad"

\* Mutant of ParseSentence: a parsing that fails leaves the parser as an exception
ParseSentence_raising(pos, s, lib) ==
    [(IF lib THEN parse_with_pynmea2(pos, s) ELSE parse_basic_nmea(pos, s))
        EXCEPT !.raised = Malformed(s)]

\* The parser _process_nmea_sentence calls, by PYNMEA2_AVAILABLE
ParseSentence(pos, s, lib) ==
    IF lib THEN parse_with_pynmea2(pos, s) ELSE parse_basic_nmea(pos, s)

----------------------------------------------------------------------------
\* The GNSS controller: the read thread and the threads of the application

\* The threads that call get_position and get_statistics
Readers == {"app"}

\* A position callback returns at once, or reads the controller (get_position,
\* is_position_valid, has_rtk_fix or get_accuracy, each under position_lock)
PositionCallbackKinds == {"plain", "reader"}

\* The candidate sentences the read thread is fed
Sentences ==
    { Sentence("GGA", TRUE, TRUE, Num(40), Num(-74), Num(4), Num(12), Num(8), Num(452), ""),
      Sentence("GGA", TRUE, TRUE, Num(40), Num(-74), Num(0), Num(12), Num(8), Num(452), ""),
      Sentence("GGA", TRUE, TRUE, Num(40), Num(-74), Num(5), Num(12), Num(8), Num(0), ""),
      Sentence("GGA", TRUE, TRUE, Num(40), Num(-74), Num(0), Bad, Num(8), Num(452), ""),
      Sentence("GGA", TRUE, TRUE, Num(40), Num(-74), Num(9), Num(12), Num(8), Num(452), ""),
      Sentence("GGA", FALSE, TRUE, Num(40), Num(-74), Num(4), Empty, Empty, Empty, ""),
      MockGGA,
      Sentence("RMC", TRUE, TRUE, Num(40), Num(-74), Empty, Empty, Empty, Empty, "A"),
      Sentence("RMC", TRUE, TRUE, Empty, Empty, Empty, Empty, Empty, Empty, "V"),
      Sentence("GSV", TRUE, TRUE, Empty, Empty, Empty, Empty, Empty, Empty, "") }

\* What one pass of _read_loop meets: a candidate sentence, or
\*   "closed"   no open serial connection (_read_serial_data returns),
\*   "nothing"  no bytes waiting, or the mock has no sentence,
\*   "noise"    a line that is no candidate (no '$', or not longer than 10),
\*   "read_error"  in_waiting / read raises inside _read_serial_data's try,
\*   "port_error"  is_open raises before that try
PassEvents == {"closed", "nothing", "noise", "read_error", "port_error"}

\* At most MaxMessages sentences are processed, MaxPositionCallbacks registered
MaxMessages == 2
MaxPositionCallbacks == 1

NoLine == Sentence("", FALSE, TRUE, Empty, Empty, Empty, Empty, Empty, Empty, "")
NoSentence == [s |-> NoLine, received |-> 0, errors |-> 0, registered |-> <<>>,
               notify |-> FALSE]
NoHeld == [has |-> FALSE, live |-> FALSE, at_return |-> NewPosition]
NoStats == [pc |-> 0, messages_received |-> 0, parsing_errors |-> 0,
            num |-> 0, den |-> 1, done |-> FALSE]

\* LC29HController.__init__ with PYNMEA2_AVAILABLE = lib in mode m
InitController(lib, m) ==
    /\ PYNMEA2_AVAILABLE = lib
    /\ gnss_mode = m
    /\ current_position = NewPosition
    /\ position_lock = None
    /\ position_callbacks = <<>>
    /\ gnss_running = FALSE
    /\ read_thread = [pc |-> "none", k |-> 0]
    /\ messages_received = 0
    /\ parsing_errors = 0
    /\ processed = NoSentence
    /\ held = [r \in Readers |-> NoHeld]
    /\ stats = NoStats

\* main.py _initialize_gps_controller: uart_ports, baud_rates
uart_ports == <<"/dev/ttyAMA0", "/dev/serial0", "/dev/ttyS0">>
baud_rates == <<38400, 9600, 115200, 57600, 19200>>

\* Mutant of ports_to_try: connect() tries the port it was given and no other
ports_to_try_single(port) == <<port>>

\* connect(): ports_to_try, self.port being the port the controller was made with
ports_to_try(port) == <<port, "/dev/ttyS0", "/dev/ttyUSB0", "/dev/ttyACM0">>

\* What the probing of one port at one baud rate ends in: NMEA data seen; no
\* data, or data without '$'; serial.SerialException (connect goes on with the
\* next port); any other exception (connect returns False at once)
ProbeOutcomes == {"accepted", "silent", "serial_error", "other_error"}

\* The probing: where its three loops are (i: uart_ports, j: baud_rates,
\* k: ports_to_try), what it returned, and what was probed so far
NoProbe ==
    [pc |-> "idle", i |-> 1, j |-> 1, k |-> 1, result |-> None,
     tried |-> {}, n |-> 0, path |-> None, baud |-> 0, aborted |-> FALSE]

InitProbe == probe = NoProbe

----------------------------------------------------------------------------
\* The ButtonManager of software/input/button_manager.py, driven by GPIO
\* interrupts and timers, or by simulate_button_event; one button, KEY1

\* The threads the GPIO callbacks run on
IrqThreads == {"irq1", "irq2"}

\* At most MaxPresses presses, MaxEdges edge interrupts waiting for a callback
\* thread, MaxSoftQueue events in the queue
MaxPresses == 2
MaxEdges == 2
MaxSoftQueue == 4

IdleIrq == [pc |-> "idle", pressed |-> FALSE, press |-> 0]
NoWrite == [by |-> None, locked |-> FALSE]

\* An event of the queue; press numbers the press a PRESS event was emitted for
SoftEvent(event, press) == [event |-> event, press |-> press]

\* ButtonManager.__init__ / _init_buttons, with simulate_buttons = sim
InitSoftButtons(sim) ==
    swbm = [simulate_buttons |-> sim, running |-> FALSE, button_states |-> FALSE,
            button_press_times |-> 0, event_queue |-> <<>>, queue_lock |-> None,
            pin_low |-> FALSE, presses |-> 0, clock |-> 0, edges |-> 0,
            irq |-> [t \in IrqThreads |-> IdleIrq], timers |-> {},
            last_write |-> NoWrite]

\* Whether thread t holds queue_lock while it writes button state
SoftHolds(m, t) == m.queue_lock = t

\* _handle_button_state_change(button, pressed) run by thread t for press number
\* press: the new fields of the manager. A press is recorded, queued and given a
\* long-press timer (and in _simulate_button_press a release timer, release
\* being TRUE); a release is queued when the button was recorded as pressed
soft_handle_button_state_change(m, t, pressed, press, release) ==
    IF pressed
    THEN [m EXCEPT !.button_states = TRUE,
                   !.clock = @ + 1,
                   !.button_press_times = m.clock + 1,
                   !.event_queue = Append(@, SoftEvent("press", press)),
                   !.timers = @ \cup {[kind |-> "long", start |-> m.clock + 1]}
                                \cup (IF release
                                      THEN {[kind |-> "release", start |-> m.clock + 1]}
                                      ELSE {}),
                   !.last_write = [by |-> t, locked |-> SoftHolds(m, t)]]
    ELSE IF m.button_states
    THEN [m EXCEPT !.button_states = FALSE,
                   !.event_queue = Append(@, SoftEvent("release", 0)),
                   !.last_write = [by |-> t, locked |-> SoftHolds(m, t)]]
    ELSE m

\* start()
SoftStart ==
    /\ ~swbm.running
    /\ swbm' = [swbm EXCEPT !.running = TRUE]
    /\ UNCHANGED <<gpio_vars, button_vars, queue_vars, gnss_vars, probe_vars, conn_vars, extra_vars>>

\* simulate_button_event(KEY1, event): PRESS goes through _simulate_button_press
\* (nothing when not running), RELEASE and LONG_PRESS straight to _trigger_event
SimulateButtonEvent ==
    /\ swbm.simulate_buttons
    /\ Len(swbm.event_queue) < MaxSoftQueue
    /\ \E event \in {"press", "release", "long_press"} :
        swbm' = IF event = "press"
                THEN IF swbm.running /\ swbm.presses < MaxPresses
                     THEN soft_handle_button_state_change(
                              [swbm EXCEPT !.presses = @ + 1], "app", TRUE,
                              swbm.presses + 1, TRUE)
                     ELSE swbm
                ELSE [swbm EXCEPT !.event_queue = Append(@, SoftEvent(event, 0))]
    /\ UNCHANGED <<gpio_vars, button_vars, queue_vars, gnss_vars, probe_vars, conn_vars, extra_vars>>

\* A threading.Timer fires, in a thread of its own: the release of
\* _simulate_button_press after 0.1 s, or _check_long_press after
\* long_press_time (1.0 s), which for one press comes after that release
TimerFires ==
    /\ \E tm \in swbm.timers :
        LET m == [swbm EXCEPT !.timers = @ \ {tm}] IN
        /\ tm.kind = "long" => [kind |-> "release", start |-> tm.start] \notin swbm.timers
        /\ swbm' = IF tm.kind = "release"
                   THEN soft_handle_button_state_change(m, "timer", FALSE, 0, FALSE)
                   ELSE IF m.button_states /\ m.button_press_times = tm.start
                   THEN [m EXCEPT !.event_queue = Append(@, SoftEvent("long_press", 0))]
                   ELSE m
    /\ UNCHANGED <<gpio_vars, button_vars, queue_vars, gnss_vars, probe_vars, conn_vars, extra_vars>>

\* The button is pressed or let go: the level of its pin changes and
\* GPIO.add_event_detect(pin, GPIO.BOTH, ...) has a callback run for the edge
PinEdge ==
    /\ ~swbm.simulate_buttons
    /\ swbm.edges < MaxEdges
    /\ swbm.pin_low \/ swbm.presses < MaxPresses
    /\ swbm' = [swbm EXCEPT !.pin_low = ~@,
                            !.presses = IF swbm.pin_low THEN @ ELSE @ + 1,
                            !.edges = @ + 1]
    /\ UNCHANGED <<gpio_vars, button_vars, queue_vars, gnss_vars, probe_vars, conn_vars, extra_vars>>

\* _gpio_callback on thread t, up to its test: read the pin and the recorded state
GpioCallbackRead(t) ==
    /\ swbm.irq[t].pc = "idle"
    /\ swbm.edges > 0
    /\ LET current_state == swbm.pin_low
           previous_state == swbm.button_states
       IN swbm' = IF swbm.running /\ current_state # previous_state
                  THEN [swbm EXCEPT !.edges = @ - 1,
                                    !.irq[t] = [pc |-> "handle", pressed |-> current_state,
                                                press |-> swbm.presses]]
                  ELSE [swbm EXCEPT !.edges = @ - 1]
    /\ UNCHANGED <<gpio_vars, button_vars, queue_vars, gnss_vars, probe_vars, conn_vars, extra_vars>>

\* _gpio_callback on thread t: the call of _handle_button_state_change
GpioCallbackHandle(t) ==
    /\ swbm.irq[t].pc = "handle"
    /\ swbm' = soft_handle_button_state_change(
                   [swbm EXCEPT !.irq[t] = IdleIrq], t, swbm.irq[t].pressed,
                   swbm.irq[t].press, FALSE)
    /\ UNCHANGED <<gpio_vars, button_vars, queue_vars, gnss_vars, probe_vars, conn_vars, extra_vars>>

----------------------------------------------------------------------------
\* _parse_coordinate: a coordinate string is a sequence of characters, its
\* result a number of 1/(60 * 10^scale) degrees, scale being the number of
\* digits after the '.' (the rounding of the floating-point division is left out)

\* The characters of the strings tried: digits, the point, a letter
Digits == {"0", "1", "2", "3", "4", "5", "6", "7", "8", "9"}
CoordChars == {"0", "4", "7", ".", "x"}

\* Strings of up to MaxCoordLen characters are tried, and the two of the
\* documentation
MaxCoordLen == 5

DigitValue(c) ==
    CASE c = "0" -> 0 [] c = "1" -> 1 [] c = "2" -> 2 [] c = "3" -> 3 [] c = "4" -> 4
      [] c = "5" -> 5 [] c = "6" -> 6 [] c = "7" -> 7 [] c = "8" -> 8 [] c = "9" -> 9

\* int(text) of a string of digits
RECURSIVE IntOf(_)
IntOf(str) ==
    IF str = <<>> THEN 0
    ELSE 10 * IntOf(SubSeq(str, 1, Len(str) - 1)) + DigitValue(str[Len(str)])

RECURSIVE Pow10(_)
Pow10(n) == IF n = 0 THEN 1 ELSE 10 * Pow10(n - 1)

\* Whether int(text) returns: digits only, at least one
IsInt(str) == str # <<>> /\ Range(str) \subseteq Digits

\* Whether float(text) returns, for a text whose third character is its first
\* '.': two digits, the point, digits only after it
IsFloat(str) ==
    /\ Range(SubSeq(str, 1, 2)) \subseteq Digits
    /\ Range(SubSeq(str, 4, Len(str))) \subseteq Digits

\* coord_str.index('.'), counted from 0
IndexOfPoint(str) == (CHOOSE i \in 1..Len(str) :
                          str[i] = "." /\ \A j \in 1..(i - 1) : str[j] # ".") - 1

NoValue == [ok |-> FALSE, num |-> 0, scale |-> 0]
Value(num, scale) == [ok |-> TRUE, num |-> num, scale |-> scale]

\* Mutant of Negated: only the southern hemisphere is negative
Negated_south_only(direction) == direction = "S"

\* `if direction in ['S', 'W']`
Negated(direction) == direction \in {"S", "W"}

\* _parse_coordinate(coord_str, direction); None is NoValue
parse_coordinate(coord_str, direction) ==
    IF coord_str = <<>> \/ direction = "" THEN NoValue
    ELSE IF "." \notin Range(coord_str) THEN NoValue
    ELSE LET decimal_pos == IndexOfPoint(coord_str) IN
         IF decimal_pos < 3 THEN NoValue
         ELSE LET degrees == SubSeq(coord_str, 1, decimal_pos - 2)
                  minutes == SubSeq(coord_str, decimal_pos - 1, Len(coord_str))
                  scale == Len(coord_str) - decimal_pos - 1
              IN IF ~IsInt(degrees) \/ ~IsFloat(minutes) THEN NoValue
                 ELSE LET decimal_degrees ==
                              IntOf(degrees) * 60 * Pow10(scale)
                              + IntOf(SubSeq(minutes, 1, 2)) * Pow10(scale)
                              + IntOf(SubSeq(minutes, 4, Len(minutes)))
                      IN Value(IF Negated(direction) THEN -decimal_degrees
                               ELSE decimal_degrees, scale)

\* The hemisphere letters passed, "" of an empty field, and another letter
Directions == {"N", "S", "E", "W", "", "X"}

RECURSIVE StringsUpTo(_)
StringsUpTo(n) ==
    IF n = 0 THEN {<<>>}
    ELSE LET shorter == StringsUpTo(n - 1)
         IN shorter \cup {Append(str, c) : str \in shorter, c \in CoordChars}

\* "4012.34567" and "07401.23456"
DocumentedLatitude == <<"4", "0", "1", "2", ".", "3", "4", "5", "6", "7">>
DocumentedLongitude == <<"0", "7", "4", "0", "1", ".", "2", "3", "4", "5", "6">>

CoordStrings == StringsUpTo(MaxCoordLen) \cup {DocumentedLatitude, DocumentedLongitude}

NoCoordinate == [coord_str |-> <<>>, direction |-> "", result |-> NoValue, returned |-> FALSE]

\* No call of _parse_coordinate is followed
InitParsing == coord = NoCoordinate

\* A call of _parse_coordinate is about to be made
InitCoordinate ==
    \E str \in CoordStrings, d \in Directions :
        coord = [coord_str |-> str, direction |-> d, result |-> NoValue, returned |-> FALSE]

\* The call is made and returns
ParseCoordinate ==
    /\ ~coord.returned
    /\ coord' = [coord EXCEPT !.result = parse_coordinate(coord.coord_str, coord.direction),
                              !.returned = TRUE]
    /\ UNCHANGED <<gpio_vars, button_vars, queue_vars, gnss_vars, probe_vars, conn_vars,
                   soft_vars, disp, nmea>>

----------------------------------------------------------------------------
\* A dispatch over a list of callbacks that change the list while it runs:
\* `for callback in self.event_callbacks[key]` of _trigger_event and
\* `for callback in self.position_callbacks` of _trigger_position_callbacks
\* both iterate over the list itself

CallbackIds == {"a", "b", "c"}

\* What a callback does when called: nothing to the list, unregister_callback
\* of itself or of another callback, register_callback of a callback
Behaviours ==
    {[op |-> "none", target |-> "a"]}
        \cup {[op |-> o, target |-> c] : o \in {"unregister", "register"}, c \in CallbackIds}

\* list.remove(x): the list without its first x
RECURSIVE Remove(_, _)
Remove(list, x) ==
    IF list = <<>> THEN <<>>
    ELSE IF Head(list) = x THEN Tail(list)
    ELSE <<Head(list)>> \o Remove(Tail(list), x)

\* register_callback: list.append(callback). A callback is registered once here
register(list, c) == IF c \in Range(list) THEN list ELSE Append(list, c)

\* unregister_callback: `if callback in list: list.remove(callback)`
unregister(list, c) == IF c \in Range(list) THEN Remove(list, c) ELSE list

\* No callback registered, no dispatch made; `does` says what each callback does
InitDispatchOf(does) ==
    disp = [callbacks |-> <<>>, does |-> does, pc |-> "idle", i |-> 0,
            at_start |-> <<>>, calls |-> <<>>, removed |-> {}]

InitDispatch == InitDispatchOf([c \in CallbackIds |-> [op |-> "none", target |-> "a"]])

\* register_callback / register_position_callback from the application
DispatchRegister ==
    /\ disp.pc # "loop"
    /\ \E c \in CallbackIds \ Range(disp.callbacks) :
          disp' = [disp EXCEPT !.callbacks = register(@, c), !.pc = "idle"]
    /\ UNCHANGED <<gpio_vars, button_vars, queue_vars, gnss_vars, probe_vars, conn_vars,
                   soft_vars, coord, nmea>>

\* The `for` statement is reached: the iterator starts at index 0 of the list
DispatchStart ==
    /\ disp.pc = "idle"
    /\ disp.callbacks # <<>>
    /\ disp' = [disp EXCEPT !.pc = "loop", !.i = 0, !.at_start = disp.callbacks,
                            !.calls = <<>>, !.removed = {}]
    /\ UNCHANGED <<gpio_vars, button_vars, queue_vars, gnss_vars, probe_vars, conn_vars,
                   soft_vars, coord, nmea>>

\* One step of the iterator: it ends when its index has reached the length the
\* list has now, and else hands out the element at its index; the callback is
\* called and does what it does to the list
DispatchStep ==
    /\ disp.pc = "loop"
    /\ IF disp.i >= Len(disp.callbacks)
       THEN disp' = [disp EXCEPT !.pc = "done"]
       ELSE LET callback == disp.callbacks[disp.i + 1]
                b == disp.does[callback]
            IN disp' = [disp EXCEPT
                   !.i = @ + 1,
                   !.calls = Append(@, callback),
                   !.callbacks = IF b.op = "unregister" THEN unregister(@, b.target)
                                 ELSE IF b.op = "register" THEN register(@, b.target)
                                 ELSE @,
                   !.removed = IF b.op = "unregister" /\ b.target \in Range(disp.callbacks)
                               THEN @ \cup {b.target} ELSE @]
    /\ UNCHANGED <<gpio_vars, button_vars, queue_vars, gnss_vars, probe_vars, conn_vars,
                   soft_vars, coord, nmea>>

----------------------------------------------------------------------------
\* _read_serial_data: the bytes of the link arrive in reads of any size, are
\* decoded and appended to nmea_buffer, and the complete lines are taken off it

\* A byte of 0x80 or more, which decode('ascii', errors='ignore') leaves out
NonAscii == "0xE9"

\* `len(line) > 10`
MinSentenceLength == 10

\* The pieces the byte streams are made of: a line of 11 characters that starts
\* with '$', one of 10, two letters, a newline, a carriage return, a byte that is
\* not ASCII
Pieces ==
    { <<"$", "G", "N", "G", "G", "A", ",", "1", "2", "3", "4">>,
      <<"$", "G", "N", "G", "G", "A", ",", "1", "2", "3">>,
      <<"G", "N">>,
      <<"\n">>,
      <<"\r">>,
      <<NonAscii>> }

\* The streams are made of up to MaxPieces pieces
MaxPieces == 3

RECURSIVE StreamsUpTo(_)
StreamsUpTo(n) ==
    IF n = 0 THEN {<<>>}
    ELSE LET shorter == StreamsUpTo(n - 1)
         IN shorter \cup {str \o piece : str \in shorter, piece \in Pieces}

\* data.decode('ascii', errors='ignore')
decode(data) == LET IsAscii(c) == c # NonAscii IN SelectSeq(data, IsAscii)

Whitespace == {" ", "\r", "\n", "\t"}

\* line.strip()
RECURSIVE strip(_)
strip(line) ==
    IF line = <<>> THEN line
    ELSE IF Head(line) \in Whitespace THEN strip(Tail(line))
    ELSE IF line[Len(line)] \in Whitespace THEN strip(SubSeq(line, 1, Len(line) - 1))
    ELSE line

\* `if line.startswith('$') and len(line) > 10`
IsCandidate(line) == line # <<>> /\ line[1] = "$" /\ Len(line) > MinSentenceLength

\* Mutant of Accumulate: the buffer is assigned, not appended to
Accumulate_assigned(buffer, data) == decode(data)

\* `self.nmea_buffer += data.decode('ascii', errors='ignore')`
Accumulate(buffer, data) == buffer \o decode(data)

\* `while '\n' in self.nmea_buffer`: split at the first newline, strip the line,
\* pass it on when it is a candidate; out is the lines passed on so far
RECURSIVE TakeLines(_, _)
TakeLines(buffer, out) ==
    IF "\n" \notin Range(buffer) THEN [nmea_buffer |-> buffer, lines |-> out]
    ELSE LET i == CHOOSE k \in 1..Len(buffer) :
                      buffer[k] = "\n" /\ \A j \in 1..(k - 1) : buffer[j] # "\n"
             line == strip(SubSeq(buffer, 1, i - 1))
         IN TakeLines(SubSeq(buffer, i + 1, Len(buffer)),
                      IF IsCandidate(line) THEN Append(out, line) ELSE out)

\* The body of _read_serial_data for the bytes data of one read
read_serial_data(buffer, data) == TakeLines(Accumulate(buffer, data), <<>>)

\* The controller before the first byte
InitBufferOf(stream) ==
    nmea = [stream |-> stream, fed |-> 0, nmea_buffer |-> <<>>, passed |-> <<>>,
            messages_received |-> 0, joined |-> FALSE]

InitBuffer == InitBufferOf(<<>>)

\* _read_serial_data with in_waiting = n > 0: the next n bytes of the stream are
\* read; every line passed on goes through _process_nmea_sentence, which
\* counts it. joined: a line was passed on that began in an earlier read and was
\* completed by this one
ReadSerialData ==
    /\ \E n \in 1..(Len(nmea.stream) - nmea.fed) :
        LET data == SubSeq(nmea.stream, nmea.fed + 1, nmea.fed + n)
            r == read_serial_data(nmea.nmea_buffer, data)
        IN nmea' = [nmea EXCEPT
                      !.fed = @ + n,
                      !.nmea_buffer = r.nmea_buffer,
                      !.passed = @ \o r.lines,
                      !.messages_received = @ + Len(r.lines),
                      !.joined = @ \/ (/\ strip(nmea.nmea_buffer) # <<>>
                                        /\ ~IsCandidate(strip(nmea.nmea_buffer))
                                        /\ r.lines # <<>>
                                        /\ r.lines[1] =
                                             TakeLines(Accumulate(nmea.nmea_buffer, data),
                                                       <<>>).lines[1]
                                        /\ Len(r.lines[1]) > Len(strip(nmea.nmea_buffer))
                                        /\ SubSeq(r.lines[1], 1, Len(strip(nmea.nmea_buffer)))
                                             = strip(nmea.nmea_buffer))]
    /\ UNCHANGED <<gpio_vars, button_vars, queue_vars, gnss_vars, probe_vars, conn_vars,
                   soft_vars, coord, disp>>

\* The parts followed on their own, not started
InitExtra == InitParsing /\ InitDispatch /\ InitBuffer

----------------------------------------------------------------------------
\* The GNSS controller: connect, start, stop, disconnect

\* The threads of the application that call them
Callers == {"main", "ui"}

\* At most MaxStale read threads outlive the read_thread field that named them
MaxStale == 2

\* What opening and testing one port ends in:
\*   "open_error"   serial.Serial(...) raises SerialException,
\*   "nmea"         bytes with a '$' among them,
\*   "noise"        bytes without '$',
\*   "silent"       no bytes after the three seconds,
\*   "read_error"   in_waiting / read raises SerialException on the open link,
\*   "other_error"  they raise another exception
LinkOutcomes == {"open_error", "nmea", "noise", "silent", "read_error", "other_error"}

NoSerial == [port |-> None, is_open |-> FALSE]
NoConnectRet == [done |-> FALSE, result |-> FALSE]
NoReturn ==
    [op |-> None, result |-> FALSE, spawned |-> FALSE, was_running |-> FALSE,
     tried_connect |-> FALSE]
IdleCall == [pc |-> "idle", top |-> None, k |-> 0, ports |-> <<>>, tried_connect |-> FALSE]

\* LC29HController.__init__ in mode m: _init_simulation sets connected
InitConnection(m) ==
    /\ connected = (m # "serial")
    /\ serial_connection = NoSerial
    /\ gnss_port = "/dev/ttyAMA0"
    /\ stale_threads = 0
    /\ call = [t \in Callers |-> IdleCall]
    /\ opened = <<>>
    /\ connect_ret = NoConnectRet
    /\ returned = NoReturn

\* Thread.is_alive() of the thread read_thread names
ReadThreadAlive == read_thread.pc \in {"loop", "callbacks"}

\* Mutant of Accepts: any bytes make connect() accept the port
Accepts_any_bytes(data) == data \in {"nmea", "noise"}

\* connect(): `if bytes_waiting > 0` and `if b'$' in test_data`
Accepts(data) == data = "nmea"

\* Mutant of StartProceeds: start() goes on whatever connect() returned
StartProceeds_always(ok) == TRUE

\* start(): `if not self.connect(): return False`
StartProceeds(ok) == ok

\* connect() returns r to caller t, which called it directly or from start()
ConnectReturns(t, r) ==
    /\ connect_ret' = [done |-> TRUE, result |-> r]
    /\ IF call[t].top = "connect"
       THEN /\ call' = [call EXCEPT ![t] = IdleCall]
            /\ returned' = [NoReturn EXCEPT !.op = "connect", !.result = r]
       ELSE IF StartProceeds(r)
       THEN /\ call' = [call EXCEPT ![t].pc = "start_spawn"]
            /\ UNCHANGED returned
       ELSE /\ call' = [call EXCEPT ![t] = IdleCall]
            /\ returned' = [NoReturn EXCEPT !.op = "start", !.tried_connect = TRUE]

\* connect() up to its loop: in simulation it sets connected and returns True
ConnectEnter(t, top) ==
    /\ opened' = <<>>
    /\ IF gnss_mode # "serial"
       THEN /\ connected' = TRUE
            /\ connect_ret' = [done |-> TRUE, result |-> TRUE]
            /\ IF top = "connect"
               THEN /\ call' = [call EXCEPT ![t] = IdleCall]
                    /\ returned' = [NoReturn EXCEPT !.op = "connect", !.result = TRUE]
               ELSE /\ call' = [call EXCEPT ![t] =
                                  [IdleCall EXCEPT !.pc = "start_spawn", !.top = top,
                                                   !.tried_connect = TRUE]]
                    /\ returned' = NoReturn
       ELSE /\ call' = [call EXCEPT ![t] =
                          [pc |-> "connect", top |-> top, k |-> 1,
                           ports |-> ports_to_try(gnss_port), tried_connect |-> TRUE]]
            /\ connect_ret' = NoConnectRet
            /\ returned' = NoReturn
            /\ UNCHANGED connected

\* connect() called by t
ConnectCall(t) ==
    /\ call[t].pc = "idle"
    /\ ConnectEnter(t, "connect")
    /\ UNCHANGED <<serial_connection, gnss_port, stale_threads>>
    /\ UNCHANGED <<gpio_vars, button_vars, queue_vars, gnss_vars, probe_vars, soft_vars, extra_vars>>

\* connect(): one iteration of the loop over ports_to_try
ConnectProbe(t) ==
    /\ call[t].pc = "connect"
    /\ \E outcome \in LinkOutcomes :
        LET port == call[t].ports[call[t].k]
            more == call[t].k < Len(call[t].ports)
            link(is_open) == [port |-> port, data |-> outcome, is_open |-> is_open]
        IN IF outcome = "open_error"
           THEN /\ opened' = Append(opened, link(FALSE))
                /\ UNCHANGED <<serial_connection, gnss_port, connected>>
                /\ IF more
                   THEN /\ call' = [call EXCEPT ![t].k = @ + 1]
                        /\ UNCHANGED <<connect_ret, returned>>
                   ELSE ConnectReturns(t, FALSE)
           ELSE IF outcome \in {"nmea", "noise", "silent"} /\ Accepts(outcome)
           THEN /\ opened' = Append(opened, link(TRUE))
                /\ serial_connection' = [port |-> port, is_open |-> TRUE]
                /\ gnss_port' = port
                /\ connected' = TRUE
                /\ ConnectReturns(t, TRUE)
           ELSE IF outcome \in {"nmea", "noise", "silent"}
           THEN /\ opened' = Append(opened, link(FALSE))
                /\ serial_connection' = [port |-> port, is_open |-> FALSE]
                /\ UNCHANGED <<gnss_port, connected>>
                /\ IF more
                   THEN /\ call' = [call EXCEPT ![t].k = @ + 1]
                        /\ UNCHANGED <<connect_ret, returned>>
                   ELSE ConnectReturns(t, FALSE)
           ELSE IF outcome = "read_error"
           THEN /\ opened' = Append(opened, link(TRUE))
                /\ serial_connection' = [port |-> port, is_open |-> TRUE]
                /\ UNCHANGED <<gnss_port, connected>>
                /\ IF more
                   THEN /\ call' = [call EXCEPT ![t].k = @ + 1]
                        /\ UNCHANGED <<connect_ret, returned>>
                   ELSE ConnectReturns(t, FALSE)
           ELSE /\ opened' = Append(opened, link(TRUE))
                /\ serial_connection' = [port |-> port, is_open |-> TRUE]
                /\ UNCHANGED <<gnss_port, connected>>
                /\ ConnectReturns(t, FALSE)
    /\ UNCHANGED stale_threads
    /\ UNCHANGED <<gpio_vars, button_vars, queue_vars, gnss_vars, probe_vars, soft_vars, extra_vars>>

\* start() called by t: `if self.running: return True`
StartCall(t) ==
    /\ call[t].pc = "idle"
    /\ IF gnss_running
       THEN /\ returned' = [NoReturn EXCEPT !.op = "start", !.result = TRUE,
                                            !.was_running = TRUE]
            /\ UNCHANGED call
       ELSE /\ call' = [call EXCEPT ![t] = [IdleCall EXCEPT !.pc = "start_connected",
                                                           !.top = "start"]]
            /\ returned' = NoReturn
    /\ connect_ret' = NoConnectRet
    /\ UNCHANGED <<connected, serial_connection, gnss_port, stale_threads, opened>>
    /\ UNCHANGED <<gpio_vars, button_vars, queue_vars, gnss_vars, probe_vars, soft_vars, extra_vars>>

\* start(): `if not self.connected:` and the call of connect()
StartConnected(t) ==
    /\ call[t].pc = "start_connected"
    /\ IF connected
       THEN /\ call' = [call EXCEPT ![t].pc = "start_spawn"]
            /\ UNCHANGED <<connected, opened, connect_ret, returned>>
       ELSE ConnectEnter(t, "start")
    /\ UNCHANGED <<serial_connection, gnss_port, stale_threads>>
    /\ UNCHANGED <<gpio_vars, button_vars, queue_vars, gnss_vars, probe_vars, soft_vars, extra_vars>>

\* start(): raise the flag, make the read thread and start it, return True.
\* A thread that read_thread named and that is still in its loop goes on
StartSpawn(t) ==
    /\ call[t].pc = "start_spawn"
    /\ ReadThreadAlive => stale_threads < MaxStale
    /\ gnss_running' = TRUE
    /\ read_thread' = [pc |-> "loop", k |-> 0]
    /\ stale_threads' = IF ReadThreadAlive THEN stale_threads + 1 ELSE stale_threads
    /\ returned' = [NoReturn EXCEPT !.op = "start", !.result = TRUE, !.spawned = TRUE,
                                    !.tried_connect = call[t].tried_connect]
    /\ call' = [call EXCEPT ![t] = IdleCall]
    /\ UNCHANGED <<connected, serial_connection, gnss_port, opened, connect_ret>>
    /\ UNCHANGED <<PYNMEA2_AVAILABLE, gnss_mode, current_position, position_lock,
                   position_callbacks, messages_received, parsing_errors, processed,
                   held, stats>>
    /\ UNCHANGED <<gpio_vars, button_vars, queue_vars, probe_vars, soft_vars, extra_vars>>

\* stop() or disconnect() called by t: stop() lowers the flag
StopCall(t) ==
    /\ call[t].pc = "idle"
    /\ \E top \in {"stop", "disconnect"} :
        call' = [call EXCEPT ![t] = [IdleCall EXCEPT !.pc = "stop_join", !.top = top]]
    /\ gnss_running' = FALSE
    /\ returned' = NoReturn
    /\ connect_ret' = NoConnectRet
    /\ UNCHANGED <<connected, serial_connection, gnss_port, stale_threads, opened>>
    /\ UNCHANGED <<PYNMEA2_AVAILABLE, gnss_mode, current_position, position_lock,
                   position_callbacks, read_thread, messages_received, parsing_errors,
                   processed, held, stats>>
    /\ UNCHANGED <<gpio_vars, button_vars, queue_vars, probe_vars, soft_vars, extra_vars>>

\* stop(): join(timeout=2.0) comes back, the read thread ended or not, and
\* stop() returns; disconnect() goes on: it closes the link and clears connected
StopReturn(t) ==
    /\ call[t].pc = "stop_join"
    /\ call' = [call EXCEPT ![t] = IdleCall]
    /\ returned' = [NoReturn EXCEPT !.op = call[t].top]
    /\ IF call[t].top = "disconnect"
       THEN /\ connected' = FALSE
            /\ serial_connection' = [serial_connection EXCEPT !.is_open = FALSE]
       ELSE UNCHANGED <<connected, serial_connection>>
    /\ UNCHANGED <<gnss_port, stale_threads, opened, connect_ret>>
    /\ UNCHANGED <<gpio_vars, button_vars, queue_vars, gnss_vars, probe_vars, soft_vars, extra_vars>>

\* _read_loop's `while self.running` with the flag down, in a thread that
\* read_thread no longer names
StaleExit ==
    /\ stale_threads > 0 /\ ~gnss_running
    /\ stale_threads' = stale_threads - 1
    /\ UNCHANGED <<connected, serial_connection, gnss_port, call, opened, connect_ret,
                   returned>>
    /\ UNCHANGED <<gpio_vars, button_vars, queue_vars, gnss_vars, probe_vars, soft_vars, extra_vars>>

\* _initialize_gps_controller is called
ProbeStart ==
    /\ probe.pc = "idle"
    /\ probe' = [probe EXCEPT !.pc = "probing"]
    /\ UNCHANGED <<gpio_vars, button_vars, queue_vars, gnss_vars, conn_vars, soft_vars, extra_vars>>

\* The loops of _initialize_gps_controller after connect() returned False for
\* uart_ports[i] at baud_rates[j]
AfterConnectFailed(p) ==
    IF p.j < Len(baud_rates) THEN [p EXCEPT !.j = p.j + 1, !.k = 1]
    ELSE IF p.i < Len(uart_ports) THEN [p EXCEPT !.i = p.i + 1, !.j = 1, !.k = 1]
    ELSE [p EXCEPT !.pc = "done", !.result = "failed"]

\* One iteration of connect()'s loop over ports_to_try, inside the two loops of
\* _initialize_gps_controller: open the port at the baud rate and test it
ProbeStep ==
    /\ probe.pc = "probing"
    /\ \E outcome \in ProbeOutcomes :
        LET ports == ports_to_try(uart_ports[probe.i])
            path == ports[probe.k]
            baud == baud_rates[probe.j]
            p == [probe EXCEPT !.tried = @ \cup {<<path, baud>>},
                               !.n = IF probe.aborted THEN 0 ELSE @ + 1,
                               !.path = path, !.baud = baud]
        IN probe' =
              IF outcome = "accepted"
              THEN [p EXCEPT !.pc = "done", !.result = "connected"]
              ELSE IF outcome = "other_error"
              THEN AfterConnectFailed([p EXCEPT !.aborted = TRUE, !.n = 0])
              ELSE IF probe.k < Len(ports)
              THEN [p EXCEPT !.k = probe.k + 1]
              ELSE AfterConnectFailed(p)
    /\ UNCHANGED <<gpio_vars, button_vars, queue_vars, gnss_vars, conn_vars, soft_vars, extra_vars>>

InitOther ==
    /\ InitQueue /\ InitController(FALSE, "serial") /\ InitProbe /\ InitConnection("serial")
    /\ InitSoftButtons(TRUE)
    /\ InitExtra

\* What the GNSS controller leaves alone
not_gnss_vars == <<gpio_vars, button_vars, queue_vars, probe_vars, conn_vars, soft_vars, extra_vars>>

\* position_lock is a threading.Lock: `with` waits until nobody holds it
PositionLockFree(t) == position_lock = None

\* start(), the controller being connected: raise the flag, start the read thread
GnssStart ==
    /\ ~gnss_running
    /\ read_thread.pc \in {"none", "exited"}
    /\ gnss_running' = TRUE
    /\ read_thread' = [pc |-> "loop", k |-> 0]
    /\ UNCHANGED <<PYNMEA2_AVAILABLE, gnss_mode, current_position, position_lock,
                   position_callbacks, messages_received, parsing_errors, processed,
                   held, stats>>
    /\ UNCHANGED not_gnss_vars

\* stop(): lower the flag (the join has a timeout)
GnssStop ==
    /\ gnss_running
    /\ gnss_running' = FALSE
    /\ UNCHANGED <<PYNMEA2_AVAILABLE, gnss_mode, current_position, position_lock,
                   position_callbacks, read_thread, messages_received, parsing_errors,
                   processed, held, stats>>
    /\ UNCHANGED not_gnss_vars

\* register_position_callback
RegisterPositionCallback ==
    /\ Len(position_callbacks) < MaxPositionCallbacks
    /\ \E cb \in PositionCallbackKinds :
        position_callbacks' = Append(position_callbacks, cb)
    /\ UNCHANGED <<PYNMEA2_AVAILABLE, gnss_mode, current_position, position_lock,
                   gnss_running, read_thread, messages_received, parsing_errors,
                   processed, held, stats>>
    /\ UNCHANGED not_gnss_vars

\* get_position(): `return self.current_position`, the object itself
GetPositionResult == [has |-> TRUE, live |-> TRUE, at_return |-> current_position]

\* What a thread reads in the value get_position returned to it
PositionSeen(r) == IF held[r].live THEN current_position ELSE held[r].at_return

\* get_position(), under position_lock
GetPosition ==
    /\ \E r \in Readers :
        /\ PositionLockFree(r)
        /\ held' = [held EXCEPT ![r] = GetPositionResult]
    /\ UNCHANGED <<PYNMEA2_AVAILABLE, gnss_mode, current_position, position_lock,
                   position_callbacks, gnss_running, read_thread, messages_received,
                   parsing_errors, processed, stats>>
    /\ UNCHANGED not_gnss_vars

\* Mutant of QueueLockFree: the queue is copied and cleared without the lock
QueueLockFree_unlocked(t) == TRUE

\* `with self.queue_lock` is entered when nobody holds the lock
QueueLockFree(t) == queue_lock = None

\* register_callback(button, event, callback): append to the list of the key
RegisterCallback ==
    /\ \E e \in CallbackEvents, cb \in CallbackKinds :
        /\ Len(event_callbacks[e]) < MaxCallbacks
        /\ event_callbacks' = [event_callbacks EXCEPT ![e] = Append(@, cb)]
    /\ UNCHANGED <<queue_lock, trig, consumer, enq, ret, dispatched, event_queue>>
    /\ UNCHANGED <<gpio_vars, poll_state, gnss_vars, probe_vars, conn_vars, soft_vars, extra_vars>>

\* _trigger_event, first half: append the event to the queue under queue_lock.
\* The clock read for the timestamp is taken to advance with every event, which
\* tells the events apart
TriggerEvent ==
    /\ trig.pc = "idle"
    /\ worker = "poll" /\ running
    /\ QueueLockFree("worker")
    /\ Len(enq) < MaxEvents
    /\ \E b \in Buttons, e \in TriggerEvents :
        LET ev == [button |-> b, event |-> e, timestamp |-> Len(enq) + 1] IN
        /\ event_queue' = Append(event_queue, ev)
        /\ enq' = Append(enq, ev)
        /\ trig' = [pc |-> "dispatch", ev |-> ev, k |-> 1, called |-> {}]
    /\ UNCHANGED <<queue_lock, event_callbacks, consumer, ret, dispatched>>
    /\ UNCHANGED <<gpio_vars, poll_state, gnss_vars, probe_vars, conn_vars, soft_vars, extra_vars>>

\* The callbacks registered for the key of an event (none: the key is absent)
CallbacksFor(ev) ==
    IF ev.event \in CallbackEvents THEN event_callbacks[ev.event] ELSE <<>>

\* Mutant of CallbackReturns: the exception of a raising callback is not caught
CallbackReturns_uncaught(cb) == cb = "normal"

\* `try: callback(button, event) except Exception`: the loop over the callbacks
\* goes on after every call, whether it returned or raised
CallbackReturns(cb) == cb \in {"normal", "raising"}

\* _trigger_event, second half: one iteration of the loop over the callbacks of
\* the key, or its end. An exception that left the loop would be caught by
\* _polling_loop, which goes on with its next pass
DispatchCallback ==
    /\ trig.pc = "dispatch"
    /\ LET cbs == CallbacksFor(trig.ev)
           k == trig.k
       IN IF k > Len(cbs)
          THEN /\ dispatched' = [ev |-> trig.ev, called |-> trig.called, cbs |-> cbs,
                                 done |-> TRUE]
               /\ trig' = NoTrigger
          ELSE IF CallbackReturns(cbs[k])
          THEN /\ trig' = [trig EXCEPT !.k = k + 1, !.called = @ \cup {k}]
               /\ UNCHANGED dispatched
          ELSE /\ dispatched' = [ev |-> trig.ev, called |-> trig.called \cup {k},
                                 cbs |-> cbs, done |-> FALSE]
               /\ trig' = NoTrigger
    /\ UNCHANGED <<queue_lock, event_callbacks, consumer, enq, ret, event_queue>>
    /\ UNCHANGED <<gpio_vars, poll_state, gnss_vars, probe_vars, conn_vars, soft_vars, extra_vars>>

\* get_button_events, first statement under queue_lock: events = queue.copy()
GetButtonEventsCopy ==
    /\ \E c \in Consumers :
        /\ consumer[c].pc = "idle"
        /\ QueueLockFree(c)
        /\ queue_lock' = c
        /\ consumer' = [consumer EXCEPT ![c] = [pc |-> "copied", events |-> event_queue]]
    /\ UNCHANGED <<event_callbacks, trig, enq, ret, dispatched, event_queue>>
    /\ UNCHANGED <<gpio_vars, poll_state, gnss_vars, probe_vars, conn_vars, soft_vars, extra_vars>>

\* get_button_events, second statement: queue.clear(); the lock is released and
\* the copy returned
GetButtonEventsClear ==
    /\ \E c \in Consumers :
        /\ consumer[c].pc = "copied"
        /\ event_queue' = <<>>
        /\ queue_lock' = None
        /\ ret' = ret \o consumer[c].events
        /\ consumer' = [consumer EXCEPT ![c] = IdleConsumer]
    /\ UNCHANGED <<event_callbacks, trig, enq, dispatched>>
    /\ UNCHANGED <<gpio_vars, poll_state, gnss_vars, probe_vars, conn_vars, soft_vars, extra_vars>>

\* _process_nmea_sentence(s) in the read thread: count the message, parse it
\* under position_lock; a GGA that was applied triggers the callbacks before the
\* lock is released
ProcessNmeaSentence ==
    /\ read_thread.pc = "loop" /\ gnss_running
    /\ gnss_mode \in {"serial", "mock"}
    /\ messages_received < MaxMessages
    /\ PositionLockFree("read_thread")
    /\ \E s \in Sentences :
        LET r == ParseSentence(current_position, s, PYNMEA2_AVAILABLE) IN
        /\ messages_received' = messages_received + 1
        /\ parsing_errors' = IF r.raised THEN parsing_errors + 1 ELSE parsing_errors
        /\ current_position' = r.pos
        /\ processed' = [s |-> s, received |-> messages_received, errors |-> parsing_errors,
                          registered |-> position_callbacks, notify |-> r.callbacks]
        /\ IF r.callbacks /\ position_callbacks # <<>>
           THEN /\ position_lock' = "read_thread"
                /\ read_thread' = [pc |-> "callbacks", k |-> 1]
           ELSE UNCHANGED <<position_lock, read_thread>>
    /\ UNCHANGED <<PYNMEA2_AVAILABLE, gnss_mode, position_callbacks, gnss_running,
                   held, stats>>
    /\ UNCHANGED not_gnss_vars

\* _simulate_basic_position: an RTK fixed position set under position_lock, the
\* callbacks triggered after the lock is released
SimulateBasicPosition ==
    /\ read_thread.pc = "loop" /\ gnss_running
    /\ gnss_mode = "basic"
    /\ PositionLockFree("read_thread")
    /\ \E jitter \in {0, 1} :
        current_position' =
            [current_position EXCEPT !.latitude = 40 + jitter, !.longitude = -74,
                                     !.elevation = 452, !.fix_type = RTK_FIXED,
                                     !.satellites_used = 12, !.hdop = 8,
                                     !.accuracy_horizontal = 0,
                                     !.accuracy_vertical = 0,
                                     !.valid = TRUE, !.timestamp = "time"]
    /\ read_thread' = IF position_callbacks # <<>> THEN [pc |-> "callbacks", k |-> 1]
                      ELSE read_thread
    /\ UNCHANGED <<PYNMEA2_AVAILABLE, gnss_mode, position_lock, position_callbacks,
                   gnss_running, messages_received, parsing_errors, processed,
                   held, stats>>
    /\ UNCHANGED not_gnss_vars

\* Mutant of Caught: _read_loop has no except clause of its own
Caught_in_read_only(e) == e = "read_error"

\* The except clauses of _read_serial_data ("read_error") and _read_loop ("port_error")
Caught(e) == e \in {"read_error", "port_error"}

\* A pass of _read_loop that hands no sentence to the processor
ReadNothing ==
    /\ read_thread.pc = "loop" /\ gnss_running
    /\ \E e \in PassEvents :
        /\ gnss_mode = "serial" \/ (gnss_mode = "mock" /\ e = "nothing")
        /\ read_thread' = IF e \in {"read_error", "port_error"} /\ ~Caught(e)
                          THEN [pc |-> "exited", k |-> 0]
                          ELSE read_thread
    /\ UNCHANGED <<PYNMEA2_AVAILABLE, gnss_mode, current_position, position_lock,
                   position_callbacks, gnss_running, messages_received, parsing_errors,
                   processed, held, stats>>
    /\ UNCHANGED not_gnss_vars

\* _trigger_position_callbacks: one iteration of its loop, or its end and the
\* end of the `with` block around it. A callback that reads the controller
\* enters position_lock itself
PositionCallbackStep ==
    /\ read_thread.pc = "callbacks"
    /\ LET k == read_thread.k IN
       IF k > Len(position_callbacks)
       THEN /\ position_lock' = None
            /\ read_thread' = [pc |-> "loop", k |-> 0]
       ELSE /\ position_callbacks[k] = "reader" => PositionLockFree("read_thread")
            /\ read_thread' = [read_thread EXCEPT !.k = k + 1]
            /\ UNCHANGED position_lock
    /\ UNCHANGED <<PYNMEA2_AVAILABLE, gnss_mode, current_position, position_callbacks,
                   gnss_running, messages_received, parsing_errors, processed,
                   held, stats>>
    /\ UNCHANGED not_gnss_vars

\* _read_loop's `while self.running` with the flag down
ReadLoopExit ==
    /\ read_thread.pc = "loop" /\ ~gnss_running
    /\ read_thread' = [pc |-> "exited", k |-> 0]
    /\ UNCHANGED <<PYNMEA2_AVAILABLE, gnss_mode, current_position, position_lock,
                   position_callbacks, gnss_running, messages_received, parsing_errors,
                   processed, held, stats>>
    /\ UNCHANGED not_gnss_vars

Max(a, b) == IF a > b THEN a ELSE b

\* get_statistics(): the dict display reads the counters one after the other,
\* without a lock: messages_received, parsing_errors, then both again for error_rate
StatisticsStep ==
    /\ stats' =
          IF stats.pc = 0
          THEN [stats EXCEPT !.pc = 1, !.done = FALSE,
                             !.messages_received = messages_received]
          ELSE IF stats.pc = 1
          THEN [stats EXCEPT !.pc = 2, !.parsing_errors = parsing_errors]
          ELSE IF stats.pc = 2
          THEN [stats EXCEPT !.pc = 3, !.num = parsing_errors]
          ELSE [stats EXCEPT !.pc = 0, !.den = Max(1, messages_received), !.done = TRUE]
    /\ UNCHANGED <<PYNMEA2_AVAILABLE, gnss_mode, current_position, position_lock,
                   position_callbacks, gnss_running, read_thread, messages_received,
                   parsing_errors, processed, held>>
    /\ UNCHANGED not_gnss_vars

----------------------------------------------------------------------------
\* Before a ButtonManager is constructed (a button without an entry in
\* button_states reads as not pressed)
InitButtonsIdle ==
    /\ now = StartTime
    /\ pin_level = [b \in Buttons |-> 1]
    /\ button_states = [b \in Buttons |-> FALSE]
    /\ button_press_times = [b \in Buttons |-> 0]
    /\ last_change_times = [b \in Buttons |-> NoEntry]
    /\ event_queue = <<>>
    /\ running = FALSE
    /\ worker = "none"
    /\ obs = [b \in Buttons |-> NoEvents]
    /\ raw = [b \in Buttons |-> NoRaw]

InitGPIO ==
    /\ allocated_pins = [p \in Pins |-> None]
    /\ pin_modes = [p \in Pins |-> None]
    /\ pin_callbacks = [p \in Pins |-> None]
    /\ event_detect = [p \in Pins |-> None]
    /\ pin_setup = pin_modes
    /\ registered_components = {}
    /\ lock = None
    /\ pc = [t \in Threads |-> "idle"]
    /\ frame = [t \in Threads |-> IdleFrame]
    /\ last = NoCall
    /\ granted = [c \in Components |-> {}]
    /\ InitButtonsIdle
    /\ InitOther

\* register_component(c)
RegisterComponent(t) ==
    /\ pc[t] = "idle"
    /\ LockFree(t)
    /\ \E c \in {t} :
        /\ registered_components' = registered_components \cup {c}
        /\ last' = Returned("register_component", c, 0, c \notin registered_components)
    /\ UNCHANGED <<allocated_pins, pin_modes, pin_callbacks, event_detect, pin_setup, lock,
                   pc, frame, granted>>
    /\ UNCHANGED button_vars
    /\ UNCHANGED other_vars

\* request_pin(pin, c, mode) called directly
RequestPin(t) ==
    /\ pc[t] = "idle"
    /\ LockFree(t)
    /\ \E pin \in SinglePins, c \in {t}, mode \in SingleModes, hw \in BOOLEAN :
        /\ request_pin(pin, c, mode, hw)
        /\ last' = ReturnedHw("request_pin", c, pin, request_pin_ok(pin, c, mode, hw),
                              ~request_pin_hw_failed(pin, c, mode, hw))
    /\ UNCHANGED <<lock, pc, frame>>
    /\ UNCHANGED button_vars
    /\ UNCHANGED other_vars

\* The calls to release_pin(pin, c): made directly, or by unregister_component
\* for each pin it found owned by c, while it holds the lock
ReleaseArgs(t) ==
    IF pc[t] = "unregister_loop"
    THEN {<<p, frame[t].comp>> : p \in frame[t].todo}
    ELSE SinglePins \X {t}

\* unregister_component after its loop over pins_to_release: drop the registration
UnregisterFinish(t, a) ==
    LET todo == frame[t].todo \ {a[1]} IN
    IF todo = {}
    THEN /\ registered_components' = registered_components \ {frame[t].comp}
         /\ lock' = None
         /\ pc' = [pc EXCEPT ![t] = frame[t].ret]
         /\ frame' = [frame EXCEPT ![t] =
                         [IdleFrame EXCEPT !.comps = frame[t].comps \ {frame[t].comp}]]
         /\ last' = Returned("unregister_component", frame[t].comp, 0, TRUE)
    ELSE /\ frame' = [frame EXCEPT ![t].todo = todo]
         /\ last' = Returned("release_pin", a[2], a[1], release_pin_ok(a[1], a[2]))
         /\ UNCHANGED <<registered_components, lock, pc>>

ReleasePin(t) ==
    /\ pc[t] \in {"idle", "unregister_loop"}
    /\ LockFree(t)
    /\ \E a \in ReleaseArgs(t) :
        /\ release_pin(a[1], a[2])
        /\ IF pc[t] = "unregister_loop"
           THEN UnregisterFinish(t, a)
           ELSE /\ last' = Returned("release_pin", a[2], a[1], release_pin_ok(a[1], a[2]))
                /\ UNCHANGED <<registered_components, lock, pc, frame>>
    /\ UNCHANGED button_vars
    /\ UNCHANGED other_vars

\* Mutant of setup_interrupt_ok: the handler is recorded without the ownership checks
setup_interrupt_ok_unchecked(pin, c, edge, hw) ==
    /\ edge \in {"RISING", "FALLING", "BOTH"}
    /\ hw

\* setup_interrupt's return value: the caller owns the pin, the edge is one of
\* edge_map's keys and GPIO.add_event_detect did not raise (hw)
setup_interrupt_ok(pin, c, edge, hw) ==
    /\ allocated_pins[pin] # None
    /\ allocated_pins[pin] = c
    /\ edge \in {"RISING", "FALLING", "BOTH"}
    /\ hw

\* setup_interrupt(pin, c, callback, edge): past the ownership checks the old edge
\* detection is removed before the new one is attached
SetupInterrupt(t) ==
    /\ pc[t] = "idle"
    /\ LockFree(t)
    /\ \E pin \in InterruptPins, c \in {t}, cb \in Callbacks,
          edge \in Edges, hw \in BOOLEAN :
        /\ event_detect' =
              IF setup_interrupt_ok(pin, c, edge, hw)
              THEN [event_detect EXCEPT ![pin] = cb]
              ELSE IF release_pin_ok(pin, c)
                   THEN [event_detect EXCEPT ![pin] = None]
                   ELSE event_detect
        /\ pin_callbacks' =
              IF setup_interrupt_ok(pin, c, edge, hw)
              THEN [pin_callbacks EXCEPT ![pin] = cb]
              ELSE pin_callbacks
        /\ last' = ReturnedHw("setup_interrupt", c, pin,
                              setup_interrupt_ok(pin, c, edge, hw),
                              ~release_pin_ok(pin, c) \/ setup_interrupt_ok(pin, c, edge, hw))
    /\ UNCHANGED <<allocated_pins, pin_modes, pin_setup, registered_components, lock,
                   pc, frame, granted>>
    /\ UNCHANGED button_vars
    /\ UNCHANGED other_vars

\* Where a call of unregister_component returns to: the caller of the registry,
\* ButtonManager.stop after its last statement, or the loop of shutdown
ReturnTo(t) ==
    IF pc[t] = "stop_unregister" THEN "bm_stopped"
    ELSE IF pc[t] = "shutdown_loop" THEN "shutdown_loop"
    ELSE "idle"

\* The component unregister_component is called for: the caller's own, or in
\* shutdown one of components_to_unregister
UnregisterArgs(t) == IF pc[t] = "shutdown_loop" THEN frame[t].comps ELSE {t}

\* The locals of the caller after unregister_component(c) returned
AfterUnregister(t, c) == [frame EXCEPT ![t].comps = @ \ {c}]

\* unregister_component(c): under the lock, collect the pins c owns and call
\* release_pin for each, then remove the registration
UnregisterComponent(t) ==
    /\ pc[t] \in {"idle", "stop_unregister", "shutdown_loop"}
    /\ LockFree(t)
    /\ \E c \in UnregisterArgs(t) :
        LET pins_to_release == {p \in Pins : allocated_pins[p] = c} IN
        IF c \notin registered_components
        THEN /\ last' = Returned("unregister_component", c, 0, FALSE)
             /\ pc' = [pc EXCEPT ![t] = ReturnTo(t)]
             /\ frame' = AfterUnregister(t, c)
             /\ UNCHANGED <<registered_components, lock>>
        ELSE IF pins_to_release = {}
        THEN /\ registered_components' = registered_components \ {c}
             /\ last' = Returned("unregister_component", c, 0, TRUE)
             /\ pc' = [pc EXCEPT ![t] = ReturnTo(t)]
             /\ frame' = AfterUnregister(t, c)
             /\ UNCHANGED lock
        ELSE /\ lock' = t
             /\ pc' = [pc EXCEPT ![t] = "unregister_loop"]
             /\ frame' = [frame EXCEPT ![t] = [IdleFrame EXCEPT !.comp = c,
                                                               !.todo = pins_to_release,
                                                               !.ret = ReturnTo(t),
                                                               !.comps = frame[t].comps]]
             /\ last' = NoCall
             /\ UNCHANGED registered_components
    /\ UNCHANGED <<allocated_pins, pin_modes, pin_callbacks, event_detect, pin_setup, granted>>
    /\ UNCHANGED button_vars
    /\ UNCHANGED other_vars

\* request_button_pins(c) / request_oled_pins(c): entry
BatchCall(t) ==
    /\ pc[t] = "idle"
    /\ \E kind \in {"button", "oled"}, c \in {t} :
        /\ frame' = [frame EXCEPT ![t] = [IdleFrame EXCEPT !.kind = kind, !.comp = c,
                                                          !.idx = 1]]
        /\ last' = NoCall
    /\ pc' = [pc EXCEPT ![t] = "batch_loop"]
    /\ UNCHANGED <<gpio_tables, lock, granted>>
    /\ UNCHANGED button_vars
    /\ UNCHANGED other_vars

\* Mutant of CleanupCount: the cleanup loop misses the pin allocated last
CleanupCount_short(idx) == idx - 2

\* The pins the cleanup loop of a failed batch releases: those appended to the
\* local list allocated_pins, i.e. every pin requested before the failing one
CleanupCount(idx) == idx - 1

\* One iteration of the batch loop: request_pin for the next pin of the dict
BatchRequest(t) ==
    /\ pc[t] = "batch_loop"
    /\ LockFree(t)
    /\ LET f == frame[t]
           pin == BatchPins(f.kind)[f.idx]
           mode == BatchMode(f.kind, pin)
       IN \E hw \in BOOLEAN :
           LET ok == request_pin_ok(pin, f.comp, mode, hw)
               done == f.idx = Len(BatchPins(f.kind))
               g == [f EXCEPT !.fresh = IF request_pin_allocates(pin, f.comp, mode, hw)
                                        THEN @ \cup {pin} ELSE @,
                              !.allOwned = @ /\ allocated_pins[pin] = f.comp]
           IN /\ request_pin(pin, f.comp, mode, hw)
              /\ last' = ReturnedHw("request_pin", f.comp, pin, ok,
                                    ~request_pin_hw_failed(pin, f.comp, mode, hw))
              /\ IF ok /\ ~done
                 THEN /\ frame' = [frame EXCEPT ![t] = [g EXCEPT !.idx = f.idx + 1]]
                      /\ pc' = pc
                 ELSE IF ok
                 THEN /\ frame' = [frame EXCEPT ![t] = [g EXCEPT !.ok = TRUE]]
                      /\ pc' = [pc EXCEPT ![t] = "batch_return"]
                 ELSE /\ frame' = [frame EXCEPT ![t] =
                                      [g EXCEPT !.ok = FALSE, !.k = 1,
                                                !.idx = CleanupCount(f.idx)]]
                      /\ pc' = [pc EXCEPT ![t] =
                                   IF CleanupCount(f.idx) >= 1 THEN "batch_cleanup"
                                   ELSE "batch_return"]
    /\ UNCHANGED lock
    /\ UNCHANGED button_vars
    /\ UNCHANGED other_vars

\* One iteration of the cleanup loop of a failed batch: release_pin
BatchCleanup(t) ==
    /\ pc[t] = "batch_cleanup"
    /\ LockFree(t)
    /\ LET f == frame[t]
           pin == BatchPins(f.kind)[f.k]
       IN /\ release_pin(pin, f.comp)
          /\ last' = Returned("release_pin", f.comp, pin, release_pin_ok(pin, f.comp))
          /\ frame' = [frame EXCEPT ![t].k = f.k + 1, ![t].undone = @ \cup {pin}]
          /\ pc' = [pc EXCEPT ![t] = IF f.k = f.idx THEN "batch_return" ELSE "batch_cleanup"]
    /\ UNCHANGED <<registered_components, lock>>
    /\ UNCHANGED button_vars
    /\ UNCHANGED other_vars

\* The batch call returns success (every pin granted) or failure (after cleanup)
BatchReturn(t) ==
    /\ pc[t] = "batch_return"
    /\ last' = Returned(BatchOp(frame[t].kind), frame[t].comp, 0, frame[t].ok)
    /\ pc' = [pc EXCEPT ![t] = "idle"]
    /\ frame' = [frame EXCEPT ![t] = IdleFrame]
    /\ UNCHANGED <<gpio_tables, lock, granted>>
    /\ UNCHANGED button_vars
    /\ UNCHANGED other_vars

\* shutdown(): under the lock, copy registered_components and call
\* unregister_component for each of them
Shutdown(t) ==
    /\ pc[t] = "idle"
    /\ LockFree(t)
    /\ lock' = t
    /\ pc' = [pc EXCEPT ![t] = "shutdown_loop"]
    /\ frame' = [frame EXCEPT ![t] = [IdleFrame EXCEPT !.comps = registered_components]]
    /\ last' = NoCall
    /\ UNCHANGED <<allocated_pins, pin_modes, pin_callbacks, event_detect, pin_setup,
                   registered_components, granted>>
    /\ UNCHANGED button_vars
    /\ UNCHANGED other_vars

\* shutdown(): after the loop the lock is released and the call returns
ShutdownReturn(t) ==
    /\ pc[t] = "shutdown_loop"
    /\ frame[t].comps = {}
    /\ lock' = None
    /\ pc' = [pc EXCEPT ![t] = "idle"]
    /\ frame' = [frame EXCEPT ![t] = IdleFrame]
    /\ last' = Returned("shutdown", None, 0, TRUE)
    /\ UNCHANGED <<allocated_pins, pin_modes, pin_callbacks, event_detect, pin_setup,
                   registered_components, granted>>
    /\ UNCHANGED button_vars
    /\ UNCHANGED other_vars

NextGPIO ==
    \E t \in Threads :
        \/ RegisterComponent(t)
        \/ RequestPin(t)
        \/ ReleasePin(t)
        \/ SetupInterrupt(t)
        \/ UnregisterComponent(t)
        \/ BatchCall(t)
        \/ BatchRequest(t)
        \/ BatchCleanup(t)
        \/ BatchReturn(t)

SpecGPIO == InitGPIO /\ [][NextGPIO]_vars

\* The registry with a thread that shuts it down at the end (main.cleanup)
NextShutdown ==
    \/ NextGPIO
    \/ \E t \in Threads :
        \/ Shutdown(t)
        \/ ShutdownReturn(t)

SpecShutdown == InitGPIO /\ [][NextShutdown]_vars

----------------------------------------------------------------------------
\* A ButtonManager that was constructed and started: it is registered, owns the
\* button pins, and its polling thread runs
InitPolling ==
    /\ allocated_pins = [p \in Pins |->
                           IF p \in Range(BatchPins("button")) THEN "button_manager" ELSE None]
    /\ pin_modes = [p \in Pins |->
                      IF p \in Range(BatchPins("button")) THEN "INPUT" ELSE None]
    /\ pin_callbacks = [p \in Pins |-> None]
    /\ event_detect = [p \in Pins |-> None]
    /\ pin_setup = pin_modes
    /\ registered_components = {"button_manager"}
    /\ lock = None
    /\ pc = [t \in Threads |-> "idle"]
    /\ frame = [t \in Threads |-> IdleFrame]
    /\ last = NoCall
    /\ granted = [c \in Components |->
                    IF c = "button_manager" THEN Range(BatchPins("button")) ELSE {}]
    /\ now = StartTime
    /\ pin_level = [b \in Buttons |-> 1]
    /\ button_states = [b \in Buttons |-> FALSE]
    /\ button_press_times = [b \in Buttons |-> 0]
    /\ last_change_times = [b \in Buttons |-> NoEntry]
    /\ event_queue = <<>>
    /\ running = TRUE
    /\ worker = "poll"
    /\ obs = [b \in Buttons |-> NoEvents]
    /\ raw = [b \in Buttons |-> NoRaw]
    /\ InitOther

NextPoll ==
    \/ WorkerPoll
    \/ WorkerSleep(MaxTime)
    \/ PinChange
    \/ GetButtonEvents

SpecPoll == InitPolling /\ [][NextPoll]_vars

NextDebounce ==
    \/ WorkerPoll
    \/ WorkerSleep(MaxTimeShort)
    \/ PinChangeRecorded
    \/ GetButtonEvents

SpecDebounce == InitPolling /\ [][NextDebounce]_vars

\* The same with pins that can be read and passes that begin late
NextStable ==
    \/ WorkerPollReads
    \/ WorkerSleepLate(MaxTimeShort)
    \/ PinChangeRecorded
    \/ GetButtonEvents

SpecStable == InitPolling /\ [][NextStable]_vars

----------------------------------------------------------------------------
\* The life of a ButtonManager: the thread that constructed it calls start() and
\* stop(), the polling thread runs, and the OLED manager uses the registry

\* ButtonManager.component_name, which also names the thread that owns the manager
BMThread == "button_manager"

\* After ButtonManager.__init__: registered, the button pins allocated, not running
InitButtonManager ==
    /\ allocated_pins = [p \in Pins |->
                           IF p \in Range(BatchPins("button")) THEN BMThread ELSE None]
    /\ pin_modes = [p \in Pins |->
                      IF p \in Range(BatchPins("button")) THEN "INPUT" ELSE None]
    /\ pin_callbacks = [p \in Pins |-> None]
    /\ event_detect = [p \in Pins |-> None]
    /\ pin_setup = pin_modes
    /\ registered_components = {BMThread}
    /\ lock = None
    /\ pc = [t \in Threads |-> IF t = BMThread THEN "bm_ready" ELSE "idle"]
    /\ frame = [t \in Threads |-> IdleFrame]
    /\ last = NoCall
    /\ granted = [c \in Components |->
                    IF c = BMThread THEN Range(BatchPins("button")) ELSE {}]
    /\ InitButtonsIdle
    /\ InitOther

\* start(): nothing when already running, else raise the flag and start the
\* polling thread
Start ==
    /\ pc[BMThread] \in {"bm_ready", "bm_stopped"}
    /\ ~running
    /\ worker \in {"none", "exited"}
    /\ running' = TRUE
    /\ worker' = "poll"
    /\ UNCHANGED <<now, pin_level, button_states, button_press_times, last_change_times,
                   event_queue, obs, raw>>
    /\ UNCHANGED gpio_vars
    /\ UNCHANGED other_vars

\* stop(): lower the flag; the join is skipped when no thread was ever started
Stop ==
    /\ pc[BMThread] \in {"bm_ready", "bm_stopped"}
    /\ running' = FALSE
    /\ pc' = [pc EXCEPT ![BMThread] =
                 IF worker = "none" THEN "stop_unregister" ELSE "stop_join"]
    /\ UNCHANGED <<now, pin_level, button_states, button_press_times, last_change_times,
                   event_queue, worker, obs, raw>>
    /\ UNCHANGED <<gpio_tables, lock, frame, last, granted>>
    /\ UNCHANGED other_vars

\* monitor_thread.join(timeout=1.0): returns when the thread has ended, or when
\* the timeout expires with the thread still in its pass or its sleep
StopJoin ==
    /\ pc[BMThread] = "stop_join"
    /\ \E timed_out \in BOOLEAN : timed_out \/ worker = "exited"
    /\ pc' = [pc EXCEPT ![BMThread] = "stop_unregister"]
    /\ UNCHANGED button_vars
    /\ UNCHANGED other_vars
    /\ UNCHANGED <<gpio_tables, lock, frame, last, granted>>

NextBM ==
    \/ Start
    \/ Stop
    \/ StopJoin
    \/ WorkerPoll
    \/ WorkerSleep(MaxTimeShort)
    \/ WorkerExit
    \/ PinChange
    \/ GetButtonEvents
    \/ \E t \in Threads :
        \/ RegisterComponent(t)
        \/ RequestPin(t)
        \/ ReleasePin(t)
        \/ UnregisterComponent(t)

SpecBM == InitButtonManager /\ [][NextBM]_vars

\* The queue of a started ButtonManager, its producer and its consumers
NextQueue ==
    \/ RegisterCallback
    \/ TriggerEvent
    \/ DispatchCallback
    \/ GetButtonEventsCopy
    \/ GetButtonEventsClear

SpecQueue == InitPolling /\ [][NextQueue]_vars

\* An LC29HController, its read thread and a thread of the application; nothing
\* else is constructed
InitGNSS ==
    /\ allocated_pins = [p \in Pins |-> None]
    /\ pin_modes = [p \in Pins |-> None]
    /\ pin_callbacks = [p \in Pins |-> None]
    /\ event_detect = [p \in Pins |-> None]
    /\ pin_setup = pin_modes
    /\ registered_components = {}
    /\ lock = None
    /\ pc = [t \in Threads |-> "idle"]
    /\ frame = [t \in Threads |-> IdleFrame]
    /\ last = NoCall
    /\ granted = [c \in Components |-> {}]
    /\ InitButtonsIdle
    /\ InitQueue
    /\ InitProbe
    /\ \E lib \in BOOLEAN, m \in {"serial", "mock", "basic"} :
          InitController(lib, m) /\ InitConnection(m)
    /\ InitSoftButtons(TRUE)
    /\ InitExtra

NextGNSS ==
    \/ GnssStart
    \/ GnssStop
    \/ RegisterPositionCallback
    \/ GetPosition
    \/ ProcessNmeaSentence
    \/ SimulateBasicPosition
    \/ ReadNothing
    \/ PositionCallbackStep
    \/ ReadLoopExit

SpecGNSS == InitGNSS /\ [][NextGNSS]_vars

\* The production auto-detect of main.py
NextProbe ==
    \/ ProbeStart
    \/ ProbeStep

SpecProbe == InitGNSS /\ [][NextProbe]_vars

\* The calls of one thread on the controller
ConnCalls(t) ==
    \/ ConnectCall(t)
    \/ ConnectProbe(t)
    \/ StartCall(t)
    \/ StartConnected(t)
    \/ StartSpawn(t)
    \/ StopCall(t)
    \/ StopReturn(t)

\* A controller driven by one thread of the application, and its read threads
NextConn ==
    \/ ConnCalls("main")
    \/ ReadNothing
    \/ ReadLoopExit
    \/ StaleExit

SpecConn == InitGNSS /\ [][NextConn]_vars

\* A controller made for simulation (connected from the start), started and
\* stopped by two threads of the application
InitSimulated == InitGNSS /\ gnss_mode # "serial"

NextWorkers ==
    \/ \E t \in Callers :
        \/ StartCall(t)
        \/ StartConnected(t)
        \/ StartSpawn(t)
        \/ StopCall(t)
        \/ StopReturn(t)
    \/ ReadNothing
    \/ ReadLoopExit
    \/ StaleExit

SpecWorkers == InitSimulated /\ [][NextWorkers]_vars

\* Callbacks of every behaviour, registered and dispatched to
InitCallbacks ==
    /\ allocated_pins = [p \in Pins |-> None]
    /\ pin_modes = [p \in Pins |-> None]
    /\ pin_callbacks = [p \in Pins |-> None]
    /\ event_detect = [p \in Pins |-> None]
    /\ pin_setup = pin_modes
    /\ registered_components = {}
    /\ lock = None
    /\ pc = [t \in Threads |-> "idle"]
    /\ frame = [t \in Threads |-> IdleFrame]
    /\ last = NoCall
    /\ granted = [c \in Components |-> {}]
    /\ InitButtonsIdle
    /\ InitQueue /\ InitController(FALSE, "serial") /\ InitProbe /\ InitConnection("serial")
    /\ InitSoftButtons(TRUE)
    /\ InitParsing
    /\ InitBuffer
    /\ \E does \in [CallbackIds -> Behaviours] : InitDispatchOf(does)

NextCallbacks ==
    \/ DispatchRegister
    \/ DispatchStart
    \/ DispatchStep

SpecCallbacks == InitCallbacks /\ [][NextCallbacks]_vars

\* Every stream, read in every way
InitLines ==
    /\ allocated_pins = [p \in Pins |-> None]
    /\ pin_modes = [p \in Pins |-> None]
    /\ pin_callbacks = [p \in Pins |-> None]
    /\ event_detect = [p \in Pins |-> None]
    /\ pin_setup = pin_modes
    /\ registered_components = {}
    /\ lock = None
    /\ pc = [t \in Threads |-> "idle"]
    /\ frame = [t \in Threads |-> IdleFrame]
    /\ last = NoCall
    /\ granted = [c \in Components |-> {}]
    /\ InitButtonsIdle
    /\ InitQueue /\ InitController(FALSE, "serial") /\ InitProbe /\ InitConnection("serial")
    /\ InitSoftButtons(TRUE)
    /\ InitParsing
    /\ InitDispatch
    /\ \E stream \in StreamsUpTo(MaxPieces) : InitBufferOf(stream)

NextLines == ReadSerialData

SpecLines == InitLines /\ [][NextLines]_vars

\* _parse_coordinate called with each of the strings and letters
InitCoord ==
    /\ allocated_pins = [p \in Pins |-> None]
    /\ pin_modes = [p \in Pins |-> None]
    /\ pin_callbacks = [p \in Pins |-> None]
    /\ event_detect = [p \in Pins |-> None]
    /\ pin_setup = pin_modes
    /\ registered_components = {}
    /\ lock = None
    /\ pc = [t \in Threads |-> "idle"]
    /\ frame = [t \in Threads |-> IdleFrame]
    /\ last = NoCall
    /\ granted = [c \in Components |-> {}]
    /\ InitButtonsIdle
    /\ InitQueue /\ InitController(FALSE, "serial") /\ InitProbe /\ InitConnection("serial")
    /\ InitSoftButtons(TRUE)
    /\ InitCoordinate
    /\ InitDispatch
    /\ InitBuffer

NextCoord == ParseCoordinate

SpecCoord == InitCoord /\ [][NextCoord]_vars

\* A ButtonManager of software/input, made for simulation or for the hardware
InitSoft ==
    /\ allocated_pins = [p \in Pins |-> None]
    /\ pin_modes = [p \in Pins |-> None]
    /\ pin_callbacks = [p \in Pins |-> None]
    /\ event_detect = [p \in Pins |-> None]
    /\ pin_setup = pin_modes
    /\ registered_components = {}
    /\ lock = None
    /\ pc = [t \in Threads |-> "idle"]
    /\ frame = [t \in Threads |-> IdleFrame]
    /\ last = NoCall
    /\ granted = [c \in Components |-> {}]
    /\ InitButtonsIdle
    /\ InitQueue /\ InitController(FALSE, "serial") /\ InitProbe /\ InitConnection("serial")
    /\ \E sim \in BOOLEAN : InitSoftButtons(sim)
    /\ InitExtra

NextSoft ==
    \/ SoftStart
    \/ SimulateButtonEvent
    \/ TimerFires
    \/ PinEdge
    \/ \E t \in IrqThreads :
        \/ GpioCallbackRead(t)
        \/ GpioCallbackHandle(t)

SpecSoft == InitSoft /\ [][NextSoft]_vars

\* The same controller with a thread that calls get_statistics
NextStats ==
    \/ GnssStart
    \/ GnssStop
    \/ ProcessNmeaSentence
    \/ ReadNothing
    \/ ReadLoopExit
    \/ StatisticsStep

SpecStats == InitGNSS /\ [][NextStats]_vars

----------------------------------------------------------------------------
\* The registry: claims C1-C3, C5-C7

OtherOwner(pin, c) == allocated_pins[pin] # None /\ allocated_pins[pin] # c

\* C1: no pin is ever granted to two components at once. A request_pin call
\* succeeds only for a pin that was free or already the caller's, and the caller
\* owns the pin afterwards; a request by a registered component for a free pin
\* fails only when the hardware configuration failed. So of two components that
\* request the same free pin concurrently, exactly one is granted it.
C1_PinHasOneOwner ==
    [][ /\ \A c1 \in Components, c2 \in Components :
             c1 # c2 => granted'[c1] \cap granted'[c2] = {}
        /\ \A c \in Components : granted'[c] = {p \in Pins : allocated_pins'[p] = c}
        /\ (last'.op = "request_pin" /\ last'.ok)
             => /\ ~OtherOwner(last'.pin, last'.comp)
                /\ allocated_pins'[last'.pin] = last'.comp
        /\ (last'.op = "request_pin" /\ ~last'.ok
               /\ allocated_pins[last'.pin] = None
               /\ last'.comp \in registered_components)
             => ~last'.hw
      ]_vars

\* C1 witness: while one component is inside a batch request, the request of the
\* other for a pin the first was just granted has failed
C1_Witness ==
    \E t \in Threads :
        /\ pc[t] = "batch_loop"
        /\ last.op = "request_pin" /\ ~last.ok /\ last.comp # t
        /\ last.pin \in frame[t].fresh
        /\ allocated_pins[last.pin] = t

\* C2: a request_pin call that fails leaves the allocation table, the pin modes,
\* the handler table (and the attached edge detections) and the registered
\* components as they were
C2_FailedRequestChangesNothing ==
    [][ (last'.op = "request_pin" /\ ~last'.ok) => UNCHANGED gpio_tables ]_vars

\* C2 witness: a component that owns pins itself has been refused a pin that
\* another component owns and has a handler on
C2_Witness ==
    /\ last.op = "request_pin" /\ ~last.ok
    /\ OtherOwner(last.pin, last.comp) /\ pin_callbacks[last.pin] # None
    /\ \E p \in Pins : allocated_pins[p] = last.comp

\* C3 (as claimed): unregister_component(c) for a component that owns pins
\* returns: its caller is never left waiting for the registry lock while holding
\* that lock itself; and when it has returned success, c owns no pin and is not
\* registered
C3_UnregisterReturns ==
    /\ \A t \in Threads : pc[t] = "unregister_loop" => (LockFree(t) \/ lock # t)
    /\ (last.op = "unregister_component" /\ last.ok)
          => /\ last.comp \notin registered_components
             /\ \A p \in Pins : allocated_pins[p] # last.comp

\* C4 (as claimed): ButtonManager.stop() returns: it is never left waiting, inside
\* unregister_component, for the registry lock it holds itself; and when it has
\* returned the flag is down, "button_manager" is not registered and no button
\* pin is allocated
C4_StopReturns ==
    /\ ~(pc[BMThread] = "unregister_loop" /\ frame[BMThread].ret = "bm_stopped"
            /\ lock = BMThread /\ ~LockFree(BMThread))
    /\ pc[BMThread] = "bm_stopped"
          => /\ ~running
             /\ BMThread \notin registered_components
             /\ \A p \in Range(BatchPins("button")) : allocated_pins[p] = None

\* C5: when a batch request returns failure, every pin that this call newly
\* allocated has been released by its cleanup loop, and none of them is
\* allocated to the caller
C5_FailedBatchReleasesItsPins ==
    \A t \in Threads :
        (pc[t] = "batch_return" /\ ~frame[t].ok)
           => /\ frame[t].fresh \subseteq frame[t].undone
              /\ \A p \in frame[t].fresh : allocated_pins[p] # frame[t].comp

\* C5 witness: a batch is about to return failure after it had newly allocated
\* two pins
C5_Witness ==
    \E t \in Threads :
        /\ pc[t] = "batch_return" /\ ~frame[t].ok
        /\ Cardinality(frame[t].fresh) >= 2

\* C6: request_pin for a pin the caller already owns succeeds and changes
\* nothing; a batch request that finds every one of its pins already owned by
\* the caller returns success and has allocated and released nothing
C6_OwnRequestIdempotent ==
    [][ /\ (last'.op = "request_pin" /\ allocated_pins[last'.pin] = last'.comp)
             => (last'.ok /\ UNCHANGED gpio_tables)
        /\ \A t \in Threads :
             (pc'[t] = "batch_return" /\ frame'[t].allOwned)
                => /\ frame'[t].ok
                   /\ frame'[t].fresh = {} /\ frame'[t].undone = {}
                   /\ \A i \in 1..Len(BatchPins(frame'[t].kind)) :
                         allocated_pins'[BatchPins(frame'[t].kind)[i]] = frame'[t].comp
      ]_vars

\* C6 witness: request_button_pins, called again by the component that owns
\* the button pins, is about to return success
C6_Witness ==
    \E t \in Threads :
        /\ pc[t] = "batch_return" /\ frame[t].kind = "button"
        /\ frame[t].allOwned /\ frame[t].ok

\* C7: release_pin and setup_interrupt by a component that does not own the pin
\* fail and change nothing; release_pin by the owner removes the pin from the
\* allocation, mode and handler tables and leaves every other pin's entries
C7_OnlyOwnerReleases ==
    [][ /\ (last'.op \in {"release_pin", "setup_interrupt"}
               /\ allocated_pins[last'.pin] # last'.comp)
             => (~last'.ok /\ UNCHANGED gpio_tables)
        /\ (last'.op = "release_pin" /\ allocated_pins[last'.pin] = last'.comp)
             => /\ last'.ok
                /\ allocated_pins'[last'.pin] = None
                /\ pin_modes'[last'.pin] = None
                /\ pin_callbacks'[last'.pin] = None
                /\ \A q \in Pins \ {last'.pin} :
                      /\ allocated_pins'[q] = allocated_pins[q]
                      /\ pin_modes'[q] = pin_modes[q]
                      /\ pin_callbacks'[q] = pin_callbacks[q]
                /\ UNCHANGED registered_components
      ]_vars

\* C7 witness: the owner has released one of its pins while another of its
\* pins, with a handler, and a pin of the other component stay allocated
C7_Witness ==
    /\ last.op = "release_pin" /\ last.ok
    /\ allocated_pins[last.pin] = None
    /\ \E q \in Pins : allocated_pins[q] = last.comp /\ pin_callbacks[q] # None
    /\ \E q \in Pins : OtherOwner(q, last.comp)

----------------------------------------------------------------------------
\* The polling button manager: claims C8-C10

\* C8: the events queued for a button form a valid path of its state machine:
\* PRESS and RELEASE alternate, starting with PRESS (a RELEASE is never first),
\* and a LONG_PRESS comes only after a PRESS that has had no RELEASE yet, at
\* least long_press_time after that PRESS
C8_ValidEventPath ==
    \A b \in Buttons : ~obs[b].bad

\* C8 witness: a button has gone through PRESS, LONG_PRESS and RELEASE
C8_Witness ==
    \E b \in Buttons :
        /\ obs[b].edge = "release" /\ obs[b].lp = 1
        /\ obs[b].edge_at - obs[b].press_at >= long_press_time
        /\ ~button_states[b]

\* C9 (as claimed): a press held for at least long_press_time has exactly one
\* LONG_PRESS before its RELEASE, a press released earlier has none
C9_ExactlyOneLongPress ==
    \A b \in Buttons :
        /\ obs[b].lp <= 1
        /\ ~obs[b].missed
        /\ ~obs[b].extra

\* C9 (amended): a press has at most one LONG_PRESS before its RELEASE, however
\* many polling passes follow; every pass that ends with the button recorded as
\* pressed at least long_press_time after the PRESS has emitted it; a press
\* released less than long_press_time after the PRESS has none; and the pass
\* that emits LONG_PRESS leaves the pressed/released state unchanged
C9_AtMostOneLongPress ==
    [][ \A b \in Buttons :
          /\ obs'[b].lp <= 1
          /\ ~obs'[b].extra
          /\ (worker' = "sleep" /\ button_states'[b] /\ obs'[b].edge = "press"
                 /\ now' - obs'[b].press_at >= long_press_time)
               => obs'[b].lp = 1
          /\ obs'[b].lp > obs[b].lp => button_states'[b] = button_states[b]
      ]_vars

\* C9 witness: a button is still held, polling passes after its LONG_PRESS
C9_Witness ==
    \E b \in Buttons :
        /\ button_states[b] /\ obs[b].edge = "press" /\ obs[b].lp = 1
        /\ worker = "poll"
        /\ now - obs[b].press_at > long_press_time + poll_interval

\* C10 (as claimed): two raw transitions of a pin less than debounce_time apart
\* produce at most one PRESS/RELEASE event
C10_ClosePairOneEvent ==
    \A b \in Buttons : raw[b].close => raw[b].nPair <= 1

\* C10 (amended): a PRESS or RELEASE of a button is never emitted less than
\* debounce_time after its previous PRESS or RELEASE, whatever the raw
\* transitions of the pin
C10_EdgeEventsSpaced ==
    \A b \in Buttons : ~obs[b].early

\* C10 witness: after two raw transitions less than debounce_time apart the
\* second event has been emitted, debounce_time after the first
C10_Witness ==
    \E b \in Buttons :
        /\ raw[b].close /\ raw[b].nPair = 2
        /\ obs[b].edge = "release"
        /\ obs[b].edge_at - obs[b].press_at = debounce_time

----------------------------------------------------------------------------
\* The event queue and the callbacks: claims C11-C12

\* C11: get_button_events empties the queue atomically: the events returned so
\* far, in the order returned, followed by the events still queued, are exactly
\* the events enqueued so far in the order enqueued, so that no event is lost,
\* none is returned twice and the order is kept
C11_DrainIsAtomic ==
    ret \o event_queue = enq

\* C11 witness: a second drain copies events enqueued after a first drain
\* returned some, and one more event is enqueued behind it
C11_Witness ==
    /\ Len(ret) >= 1
    /\ \E c \in Consumers : consumer[c].pc = "idle" /\ Len(ret) + Len(event_queue) = MaxEvents
    /\ Len(event_queue) >= 1

\* C12: a finished _trigger_event has enqueued its event and invoked every
\* callback registered for its key, whatever the callbacks registered before
\* them did; and the polling thread is still alive
C12_RaisingCallbackIsolated ==
    /\ dispatched.done
    /\ \A i \in 1..Len(dispatched.cbs) : i \in dispatched.called
    /\ dispatched.ev.timestamp # 0 =>
          \E i \in 1..Len(enq) : enq[i] = dispatched.ev
    /\ running => worker # "exited"

\* C12 witness: an event went to a raising callback and then to a normal one
C12_Witness ==
    /\ dispatched.ev.timestamp # 0
    /\ dispatched.cbs = <<"raising", "normal">>
    /\ dispatched.called = {1, 2}
    /\ Len(enq) >= 2

----------------------------------------------------------------------------
\* The GNSS controller: claims C13-C19

\* C13 (as claimed): in every state the current position that is valid has a
\* fix type other than NO_FIX and a timestamp
C13_ValidHasFix ==
    current_position.valid =>
        /\ current_position.fix_type # NO_FIX
        /\ current_position.timestamp # None

\* C14 (as claimed): what get_position returned to a thread keeps the field
\* values it had when it was returned, whatever the read thread processes later
C14_SnapshotKeepsItsFields ==
    \A r \in Readers : held[r].has => PositionSeen(r) = held[r].at_return

\* C15 (as claimed): while the read thread runs the position callbacks it does
\* not hold position_lock, so that a callback that reads the controller enters
\* the lock and returns
C15_CallbacksAfterRelease ==
    read_thread.pc = "callbacks" =>
        /\ position_lock # "read_thread"
        /\ (read_thread.k <= Len(position_callbacks)
              /\ position_callbacks[read_thread.k] = "reader")
               => PositionLockFree("read_thread")

\* Every field of a GGA sentence is there and converts, its code is in 0..8
CompleteGGA(s) ==
    /\ s.type = "GGA" /\ s.parts_ok
    /\ \A f \in {s.lat, s.lon, s.q, s.sats, s.hdop, s.alt} : IsNum(f)
    /\ s.q.v \in FixTypes

\* C16 (as claimed): the sentence processed last has raised messages_received
\* by one, and parsing_errors by one exactly when its parsing failed
C16_ErrorsCounted ==
    processed.s.type # "" =>
        /\ messages_received = processed.received + 1
        /\ parsing_errors =
              IF Malformed(processed.s) THEN processed.errors + 1 ELSE processed.errors

\* C17: the read thread ends only in a step taken with the running flag down,
\* whatever malformed sentences, other lines and serial errors it has met
C17_ReadLoopKeepsRunning ==
    [][ (read_thread.pc # "exited" /\ read_thread'.pc = "exited") => ~gnss_running ]_vars

\* C17 witness: the read thread is in its loop after nothing but malformed
\* sentences, the flag up
C17_Witness ==
    /\ gnss_running /\ read_thread.pc = "loop"
    /\ messages_received = MaxMessages
    /\ Malformed(processed.s)
    /\ current_position = NewPosition

\* C18: in a dict returned by get_statistics, error_rate (num / den) equals the
\* dict's parsing_errors / max(1, the dict's messages_received), also when
\* sentences were processed between the reads of the counters
C18_ErrorRateOfTheDict ==
    stats.done =>
        stats.num * Max(1, stats.messages_received) = stats.parsing_errors * stats.den

\* C18 witness: a dict whose error_rate was computed after a sentence that the
\* dict's messages_received does not count, a malformed one
C18_Witness ==
    /\ stats.done
    /\ stats.messages_received >= 1
    /\ stats.den > stats.messages_received
    /\ Malformed(processed.s)

\* C19 (as claimed): after a GGA sentence with every field present and a code q
\* in 0..8 was processed the position has fix type q, the satellites, hdop and
\* elevation of the sentence, a timestamp, and valid = (q > 0); so for the
\* sentence of mock_gps.py: RTK_FIXED, 12, 0.8, 45.2, valid
C19_GGAApplied ==
    CompleteGGA(processed.s) =>
        /\ current_position.fix_type = processed.s.q.v
        /\ current_position.satellites_used = processed.s.sats.v
        /\ current_position.hdop = processed.s.hdop.v
        /\ current_position.elevation = processed.s.alt.v
        /\ current_position.timestamp # None
        /\ current_position.valid = (processed.s.q.v > 0)

----------------------------------------------------------------------------
\* The production auto-detect: claim C20

\* The device paths and the order of the claim: path by path, each at every
\* baud rate
ClaimedPaths ==
    <<"/dev/ttyAMA0", "/dev/serial0", "/dev/ttyS0", "/dev/ttyUSB0", "/dev/ttyACM0">>

ClaimedProbe(n) ==
    <<ClaimedPaths[((n - 1) \div Len(baud_rates)) + 1],
      baud_rates[((n - 1) % Len(baud_rates)) + 1]>>

AllCombinations == Range(ClaimedPaths) \X Range(baud_rates)

\* The order of the code: for each of /dev/ttyAMA0, /dev/serial0, /dev/ttyS0 and
\* each baud rate, that path and then /dev/ttyS0, /dev/ttyUSB0, /dev/ttyACM0
CodeFallbacks == <<"/dev/ttyS0", "/dev/ttyUSB0", "/dev/ttyACM0">>

CodeProbe(n) ==
    LET per_path == Len(baud_rates) * (Len(CodeFallbacks) + 1)
        i == ((n - 1) \div per_path) + 1
        j == (((n - 1) % per_path) \div (Len(CodeFallbacks) + 1)) + 1
        k == (n - 1) % (Len(CodeFallbacks) + 1)
    IN <<IF k = 0 THEN uart_ports[i] ELSE CodeFallbacks[k], baud_rates[j]>>

----------------------------------------------------------------------------
\* The GNSS controller, connecting and starting: claims C21-C23, C27, C28

\* C21: in real mode connect() returns True only after a port delivered bytes
\* with '$' among them; connected is then set, the port of the controller is that
\* port and its link is open; the link of every port that delivered no bytes, or
\* bytes without '$', was closed and the port not accepted
C21_AcceptsOnlyNmea ==
    /\ (gnss_mode = "serial" /\ connect_ret.done /\ connect_ret.result) =>
          /\ Len(opened) >= 1
          /\ opened[Len(opened)].data = "nmea"
          /\ connected
          /\ gnss_port = opened[Len(opened)].port
          /\ serial_connection = [port |-> gnss_port, is_open |-> TRUE]
    /\ \A i \in 1..Len(opened) :
          opened[i].data \in {"silent", "noise"} =>
              /\ ~opened[i].is_open
              /\ ~(i = Len(opened) /\ connect_ret.result)

\* C21 witness: connect() accepted the third port after a silent one and one
\* that delivered bytes without '$'
C21_Witness ==
    /\ gnss_mode = "serial" /\ connect_ret.done /\ connect_ret.result
    /\ Len(opened) = 3
    /\ opened[1].data = "silent" /\ opened[2].data = "noise"
    /\ gnss_port = "/dev/ttyUSB0"

\* C22 (as claimed): when stop() (or disconnect()) has returned the controller
\* is disconnected: connected is False
C22_StoppedIsDisconnected ==
    returned.op \in {"stop", "disconnect"} => ~connected

\* C23: a start() that found the flag up returns True and starts no thread; one
\* that found it down connects first when the controller is not connected;
\* when it returns False the flag is down, no thread was started and the
\* connect() it made had failed; when it returns True the flag is up, the
\* controller is connected and read_thread names a thread
C23_StartContract ==
    returned.op = "start" =>
        /\ returned.was_running => (returned.result /\ ~returned.spawned)
        /\ returned.result =>
              /\ gnss_running /\ connected
              /\ read_thread.pc # "none"
              /\ ~returned.was_running => returned.spawned
        /\ ~returned.result =>
              /\ ~gnss_running /\ ~returned.spawned /\ ~connected
              /\ returned.tried_connect
              /\ connect_ret.done /\ ~connect_ret.result
        /\ (returned.tried_connect /\ returned.result) =>
              connect_ret.done /\ connect_ret.result

\* C23 witness: start() returned False after connect() had tried its four ports
C23_Witness ==
    /\ returned.op = "start" /\ ~returned.result
    /\ Len(opened) = 4
    /\ read_thread.pc = "exited"

\* C27 (as claimed): a GGA or RMC sentence that was decoded and applied to the
\* position has every callback registered at that time triggered for it
DecodedRMC(s) == s.type = "RMC" /\ s.parts_ok /\ s.checksum_ok

C27_EveryUpdateNotifies ==
    ((CompleteGGA(processed.s) \/ DecodedRMC(processed.s)) /\ processed.s.checksum_ok) =>
        processed.notify

\* C28 (as claimed): at most one read thread of a controller is in its loop
C28_AtMostOneWorker ==
    stale_threads + (IF ReadThreadAlive THEN 1 ELSE 0) <= 1
----------------------------------------------------------------------------
\* The registry, shutting down: claim C25

\* C25 (as claimed): shutdown() called with a component registered returns: its
\* caller is never left waiting, inside unregister_component, for the registry
\* lock it holds itself; and when it has returned no component is registered
\* and no pin allocated
C25_ShutdownReturns ==
    /\ \A t \in Threads :
          (pc[t] = "shutdown_loop" /\ frame[t].comps # {}) => (LockFree(t) \/ lock # t)
    /\ last.op = "shutdown" =>
          /\ registered_components = {}
          /\ \A p \in Pins : allocated_pins[p] = None
----------------------------------------------------------------------------
\* The polling button manager: claim C26

\* C26 (as claimed): a button recorded as pressed has a press time that is not
\* the sentinel 0, also after its LONG_PRESS was emitted
C26_PressedHasPressTime ==
    \A b \in Buttons : button_states[b] => button_press_times[b] # 0
----------------------------------------------------------------------------
\* The registry and the hardware: claim C30

\* C30 (as claimed): a pin that is set up as input or output, or that has an
\* edge detection attached, is in the allocation table; so a pin that was
\* released carries no hardware configuration
C30_ConfiguredOnlyWhileAllocated ==
    \A p \in Pins :
        (pin_setup[p] # None \/ event_detect[p] # None) => allocated_pins[p] # None
----------------------------------------------------------------------------
\* The ButtonManager of software/input: claims C24, C29

\* Whether the events q[i], q[i+1], ... continue a path Released -> Pressed ->
\* (LongPress) -> Released from the state st
RECURSIVE PathFrom(_, _, _)
PathFrom(q, i, st) ==
    IF i > Len(q) THEN TRUE
    ELSE IF q[i].event = "press" THEN st = "released" /\ PathFrom(q, i + 1, "pressed")
    ELSE IF q[i].event = "long_press" THEN st = "pressed" /\ PathFrom(q, i + 1, "long")
    ELSE st \in {"pressed", "long"} /\ PathFrom(q, i + 1, "released")

\* C24 (as claimed): whatever simulate_button_event is called with, the events
\* queued for the button form a path Released -> Pressed -> (LongPress) ->
\* Released
C24_SimulatedEventsFormPath ==
    swbm.simulate_buttons => PathFrom(swbm.event_queue, 1, "released")

\* C29 (as claimed): a thread other than a polling worker writes the state of a
\* button only while it holds queue_lock; and no two PRESS events are queued for
\* one press of the button
C29_StateWrittenUnderLock ==
    /\ swbm.last_write.by # None => swbm.last_write.locked
    /\ \A i, j \in 1..Len(swbm.event_queue) :
          (i # j /\ swbm.event_queue[i].event = "press"
               /\ swbm.event_queue[j].event = "press")
             => swbm.event_queue[i].press # swbm.event_queue[j].press
----------------------------------------------------------------------------
\* The two parsers side by side: claim C31

\* The fields of a position the two parsers are compared on
ResultingPosition(p) ==
    <<p.latitude, p.longitude, p.elevation, p.fix_type, p.satellites_used, p.hdop,
      p.valid>>

\* C31 (as claimed): from the current position, _parse_basic_nmea and
\* _parse_with_pynmea2 leave the same latitude, longitude, elevation, fix_type,
\* satellites_used, hdop and valid, and both or neither trigger the position
\* callbacks, for every GGA and RMC sentence
C31_ParsersAgree ==
    \A s \in Sentences :
        s.type \in {"GGA", "RMC"} =>
            LET basic == parse_basic_nmea(current_position, s)
                library == parse_with_pynmea2(current_position, s)
            IN /\ ResultingPosition(basic.pos) = ResultingPosition(library.pos)
               /\ basic.callbacks = library.callbacks
----------------------------------------------------------------------------
\* _parse_coordinate: claim C32

\* The string is of the form D..DMM.MMMM: digits, one point, at least three
\* digits before it
DegreesMinutesFormat(str) ==
    \E i \in 4..Len(str) :
        /\ str[i] = "."
        /\ \A j \in 1..Len(str) : j # i => str[j] \in Digits

\* degrees + minutes / 60 of such a string, in 1/(60 * 10^scale) degrees: the
\* digits before the last two integer digits are the degrees, the rest minutes
DegreesPlusMinutes(str) ==
    LET i == CHOOSE k \in 1..Len(str) : str[k] = "."
        scale == Len(str) - i
    IN Value(IntOf(SubSeq(str, 1, i - 3)) * 60 * Pow10(scale)
                 + IntOf(SubSeq(str, i - 2, i - 1) \o SubSeq(str, i + 1, Len(str))),
             scale)

Negative(v) == [v EXCEPT !.num = -v.num]

\* C32: _parse_coordinate returns degrees + minutes/60 for a string
\* D..DMM.MMMM, negated exactly for S and W, so that the value for S is minus
\* the one for N and the value for W minus the one for E; "4012.34567"/"N"
\* gives 40 + 12.34567/60 and "07401.23456"/"W" gives -(74 + 1.23456/60); an
\* empty string, an empty direction, a string without '.' or with fewer than
\* three characters before the '.' gives no value
C32_CoordinateConversion ==
    coord.returned =>
        LET str == coord.coord_str
            d == coord.direction
            r == coord.result
        IN /\ (DegreesMinutesFormat(str) /\ d # "") =>
                  r = IF d \in {"S", "W"} THEN Negative(DegreesPlusMinutes(str))
                      ELSE DegreesPlusMinutes(str)
           /\ d = "S" => r = Negative(parse_coordinate(str, "N"))
           /\ d = "W" => r = Negative(parse_coordinate(str, "E"))
           /\ (str = DocumentedLatitude /\ d = "N") =>
                  r = Value(40 * 6000000 + 1234567, 5)
           /\ (str = DocumentedLongitude /\ d = "W") =>
                  r = Value(-(74 * 6000000 + 123456), 5)
           /\ (\/ str = <<>>
               \/ d = ""
               \/ "." \notin Range(str)
               \/ \E i \in 1..Min(3, Len(str)) : str[i] = ".") => ~r.ok

\* "07401.23456" with "W" was converted, to a negative value
C32_Witness ==
    /\ coord.returned
    /\ coord.coord_str = DocumentedLongitude
    /\ coord.direction = "W"
    /\ coord.result.ok /\ coord.result.num < 0
----------------------------------------------------------------------------
\* The registry, a batch that fails: claim C33

\* C33 (as claimed): when request_button_pins / request_oled_pins is about to
\* return failure, every pin its cleanup loop went over that the component owned
\* before the call (request_pin answered True without allocating it) is still
\* allocated to the component
C33_FailedBatchKeepsOwnedPins ==
    \A t \in Threads :
        (pc[t] = "batch_return" /\ ~frame[t].ok) =>
            \A p \in frame[t].undone \ frame[t].fresh :
                allocated_pins[p] = frame[t].comp
----------------------------------------------------------------------------
\* The tables of the registry: claim C34

\* C34: the owner recorded for an allocated pin is a registered component, the
\* pins with a recorded mode are the allocated pins, and a pin with a recorded
\* interrupt handler is allocated
C34_TablesConsistent ==
    /\ \A p \in Pins :
          allocated_pins[p] # None => allocated_pins[p] \in registered_components
    /\ {p \in Pins : pin_modes[p] # None} = {p \in Pins : allocated_pins[p] # None}
    /\ \A p \in Pins : pin_callbacks[p] # None => allocated_pins[p] # None

\* A pin is allocated with a handler recorded, and another pin was just released
C34_Witness ==
    /\ last.op = "release_pin" /\ last.ok
    /\ allocated_pins[last.pin] = None /\ pin_modes[last.pin] = None
    /\ \E p \in Pins : allocated_pins[p] # None /\ pin_callbacks[p] # None
----------------------------------------------------------------------------
\* Callbacks that change the list during a dispatch: claim C35

\* C35 (as claimed): when a dispatch has ended, the callbacks that were
\* registered at its start and were not removed during it have each been called
\* exactly once, in registration order
C35_EveryRemainingCallbackCalledOnce ==
    disp.pc = "done" =>
        LET Remaining(c) == c \in Range(disp.at_start) /\ c \notin disp.removed
        IN SelectSeq(disp.calls, Remaining) = SelectSeq(disp.at_start, Remaining)
----------------------------------------------------------------------------
\* The status the controller reports: claim C36

\* is_position_valid(), has_rtk_fix(), has_rtk_float()
is_position_valid == current_position.valid /\ current_position.fix_type # NO_FIX
has_rtk_fix == current_position.fix_type = RTK_FIXED
has_rtk_float == current_position.fix_type = RTK_FLOAT

\* C36 (as claimed): whatever sentences were processed, a controller that
\* reports an RTK fixed or RTK float solution reports a valid position
C36_RtkImpliesValid ==
    (has_rtk_fix \/ has_rtk_float) => is_position_valid
----------------------------------------------------------------------------
\* A sentence rejected while it is parsed: claim C37

\* A GGA sentence, complete and with a matching checksum, that the parser gives
\* up on: a fix-quality code outside 0..8, or a numeric field that is no number
RejectedGGA(s) ==
    /\ s.type = "GGA" /\ s.parts_ok /\ s.checksum_ok
    /\ \/ IsNum(s.q) /\ s.q.v \notin FixTypes
       \/ \E f \in {s.q, s.sats, s.hdop, s.alt} : f.k = "bad"

\* C37 (as claimed): the parser in use, given a sentence it rejects, leaves
\* every field of the current position as it is and triggers no callback
C37_RejectedSentenceChangesNothing ==
    \A s \in Sentences :
        RejectedGGA(s) =>
            LET r == ParseSentence(current_position, s, PYNMEA2_AVAILABLE)
            IN r.pos = current_position /\ ~r.callbacks
----------------------------------------------------------------------------
\* The polling button manager, a change that stays: claim C38

\* The raw level of the pin of b says pressed
RawPressed(b) == pin_level[b] = 0

\* C38 (as claimed): a raw level that differed from the recorded state for
\* longer than debounce_time has had its PRESS or RELEASE emitted: the level
\* never goes back unnoticed after more than debounce_time
C38_HeldLongerThanWindowEmitted ==
    [][ \A b \in Buttons :
          (pin_level'[b] # pin_level[b] /\ RawPressed(b) # button_states[b])
              => now - raw[b].last <= debounce_time
      ]_vars

\* C38 (amended): a polling pass leaves a button's recorded state different from
\* the raw level it read only inside the debounce window of the button's last
\* PRESS or RELEASE, so the event is emitted by the first pass that begins
\* debounce_time or more after that event; and a raw level goes back unnoticed
\* only when it lasted no longer than debounce_time plus the time by which a
\* pass can be late
C38_StableChangeEmitted ==
    [][ \A b \in Buttons :
          /\ (worker = "poll" /\ worker' = "sleep" /\ RawPressed(b) # button_states'[b])
                => /\ last_change_times'[b] # NoEntry
                   /\ now - last_change_times'[b] < debounce_time
          /\ (pin_level'[b] # pin_level[b] /\ RawPressed(b) # button_states[b])
                => now - raw[b].last <= debounce_time + MaxLate - poll_interval
      ]_vars

\* C38 witness: a release that came inside the debounce window of the PRESS has
\* been emitted, later than the raw transition, and the recorded state is the
\* raw level again
C38_Witness ==
    \E b \in Buttons :
        /\ worker = "sleep"
        /\ obs[b].edge = "release" /\ raw[b].nLast = 1
        /\ obs[b].edge_at > raw[b].last + poll_interval
        /\ obs[b].edge_at - obs[b].press_at >= debounce_time
        /\ RawPressed(b) = button_states[b]
----------------------------------------------------------------------------
\* connect() that fails: claim C39

\* C39 (as claimed): in real mode, when connect() has returned False the
\* controller is not connected and none of the serial links that call opened is
\* open; and a connected controller holds an open serial link
C39_FailedConnectDisconnects ==
    gnss_mode = "serial" =>
        /\ (connect_ret.done /\ ~connect_ret.result) =>
              /\ ~connected
              /\ \A i \in 1..Len(opened) : ~opened[i].is_open
        /\ connected => serial_connection.is_open
----------------------------------------------------------------------------
\* Line assembly in the read loop: claim C40

\* C40: however the bytes read so far were split into reads, the lines passed
\* to the sentence processor are those a single read of the same bytes passes,
\* in the same order, and each is counted once; every one of them starts with
\* '$', is longer than 10 characters and is trimmed; and the buffer kept is the
\* one that single read keeps, the trailing incomplete line, without a newline
C40_ChunkingIndependent ==
    LET whole == read_serial_data(<<>>, SubSeq(nmea.stream, 1, nmea.fed))
    IN /\ nmea.passed = whole.lines
       /\ nmea.messages_received = Len(whole.lines)
       /\ nmea.nmea_buffer = whole.nmea_buffer
       /\ "\n" \notin Range(nmea.nmea_buffer)
       /\ \A i \in 1..Len(nmea.passed) :
             LET line == nmea.passed[i]
             IN /\ line[1] = "$" /\ Len(line) > 10
                /\ line[Len(line)] \notin Whitespace

\* C40 witness: a sentence whose characters came in more than one read has been
\* passed on, once, and the reads so far were not one read
C40_Witness ==
    /\ nmea.joined
    /\ Len(nmea.passed) = 1
    /\ nmea.fed = Len(nmea.stream)
    /\ nmea.nmea_buffer # <<>>
====
